---- MODULE Spec2Model ----
(***************************************************************************)
(* Radio-lifecycle controller of zephyr-watch                              *)
(* (src/src/bluetooth/infrastructure.c).                                   *)
(*                                                                         *)
(* Threads: the caller threads of enable_bluetooth_subsystem() and         *)
(* disable_bluetooth_subsystem() (serialised by ble_mutex), the system     *)
(* work queue that runs start_advertising_work(), and the protocol         *)
(* stack's notification thread that runs the connection callbacks.  The    *)
(* job and the callbacks take no lock, so every step below is one access   *)
(* to the shared flags or one call into the stack / work queue.            *)
(***************************************************************************)
EXTENDS Integers, FiniteSets, Sequences, TLC

VARIABLES
    advertising,          \* static bool advertising
    bt_enabled,           \* static bool bt_enabled          (stack_powered)
    ble_services_active,  \* static bool ble_services_active (services_active)
    adv_work,             \* static struct k_work_delayable adv_work
    ble_mutex,            \* static struct k_mutex ble_mutex: owner or NoOwner
    inited,               \* bluetooth_infrastructure_init() has run
    pc,                   \* position of each caller thread
    err,                  \* the local `int err` of enable_bluetooth_subsystem()
    ret,                  \* value returned by the call in progress
    path,                 \* return path taken by the call in progress
    calls,                \* stack / work-queue routines invoked by the call
    fails,                \* routines that reported a failure to the call
    jpc,                  \* position of the work-queue thread in the job body
    cpc,                  \* position of the stack's notification thread
    cb_err,               \* the `err` argument of the connected callback
    term_req,             \* last bt_conn_disconnect() reason requested
    auth_cb,              \* stack side: bt_conn_auth_cb table registered
    auth_info_cb,         \* stack side: bt_conn_auth_info_cb table registered
    bcast,                \* stack side: the radio is broadcasting
    link,                 \* stack side: a link is up
    recycle_due,          \* stack side: a connection object awaits recycling
    power_ok,             \* number of successful bt_enable() calls
    cb_passkey,           \* the `passkey` argument of the passkey callback
    disp,                 \* pairing-display calls and PIN (when recorded)
    adv_stat,             \* count of bt_le_adv_start() calls (when recorded)
    unfired_cancel,       \* disable() cancelled a job that had not fired yet
    ui_checkbox,          \* settings screen: the "Enable BLE" box is checked
    param_ret,            \* value le_param_req() hands back to the stack
    notifications,        \* notifications[NOTIFICATION_QUEUE_SIZE] (id, active)
    notification_count,   \* static int notification_count
    next_notification_id, \* static uint32_t next_notification_id
    get_ret,              \* last notifications_get_by_index() call and result
    notif_inited          \* notifications_init() has run

flags   == <<advertising, bt_enabled, ble_services_active>>
callerv == <<pc, err, ret, path, calls, fails>>
jobv    == <<jpc>>
cbv     == <<cpc, cb_err, term_req>>
stackv  == <<auth_cb, auth_info_cb, bcast, link, recycle_due, power_ok>>
pairv   == <<cb_passkey, disp>>
paramv  == <<param_ret>>
notifv  == <<notifications, notification_count, next_notification_id, get_ret,
             notif_inited>>
extv    == <<pairv, adv_stat, unfired_cancel, ui_checkbox, paramv, notifv>>
vars    == <<advertising, bt_enabled, ble_services_active, adv_work,
             ble_mutex, inited, pc, err, ret, path, calls, fails, jpc, cpc,
             cb_err, term_req, auth_cb, auth_info_cb, bcast, link,
             recycle_due, power_ok, cb_passkey, disp,
             adv_stat, unfired_cancel, ui_checkbox, param_ret,
             notifications, notification_count, next_notification_id,
             get_ret, notif_inited>>

(***************************************************************************)
(* Program constants and small input sets.                                 *)
(***************************************************************************)
Callers  == {"main", "ui"}      \* threads that call enable()/disable()
NoOwner  == "nobody"
ErrCodes == {-5, -22}           \* negative errno values the stack may return
Outcomes == {0} \cup ErrCodes   \* 0 = success

ADV_SETTLE_MS  == 100           \* K_MSEC(100)
ADV_BACKOFF_MS == 5000          \* K_SECONDS(5)

BT_HCI_ERR_REMOTE_USER_TERM_CONN == "REMOTE_USER_TERM_CONN"
BT_HCI_ERR_AUTH_FAIL             == "AUTH_FAIL"
NoTerm == "none"

MaxPowerOk == 2                 \* cap of the power_ok counter

ConnErrs == {0, 62}             \* `err` argument of connected(): 0 = clean

(***************************************************************************)
(* The delayable work item (Zephyr k_work_delayable as used by the code).  *)
(*   pending   : scheduled or queued, not yet picked up by the work queue  *)
(*   canceling : cancelled while its handler was running; submissions are  *)
(*               rejected until the handler returns                        *)
(*   delay     : delay of the pending submission in ms (0 when none)       *)
(***************************************************************************)
WorkIdle == [pending |-> FALSE, canceling |-> FALSE, delay |-> 0]

\* k_work_init_delayable(&adv_work, start_advertising_work)
k_work_init_delayable(w) == WorkIdle

\* k_work_schedule(&adv_work, delay): no effect when already pending or
\* while a cancellation is in progress.
k_work_reschedule(w, delay) ==
    IF w.canceling THEN w
    ELSE [w EXCEPT !.pending = TRUE, !.delay = delay]
k_work_schedule(w, delay) ==
    IF w.pending \/ w.canceling THEN w
    ELSE [w EXCEPT !.pending = TRUE, !.delay = delay]

\* k_work_cancel_delayable(&adv_work): removes a pending submission; a
\* handler that is already running is not stopped.
k_work_cancel_delayable(w, running) ==
    [pending |-> FALSE, canceling |-> running, delay |-> 0]

JobRunning == jpc # "idle"

\* record of the bt_le_adv_start() calls; kept only in the scenarios that
\* count them (on = TRUE)
AdvStatOff == [on |-> FALSE, calls |-> 0, fails |-> 0]
AdvStatOn  == [on |-> TRUE, calls |-> 0, fails |-> 0]

MaxAdvFailures == 3             \* failed starts allowed while counting

\* the calls made to the pairing screen (blepairing.h) and the last PIN
\* handed to it, recorded only where a property is about them
DispOff == [on |-> FALSE, calls |-> <<>>, pin |-> <<>>]
DispOn  == [on |-> TRUE, calls |-> <<>>, pin |-> <<>>]

MaxDispCalls == 4               \* pairing-screen calls allowed while recording

disp_log(d, cs, pin) ==
    IF d.on THEN [d EXCEPT !.calls = @ \o cs, !.pin = pin] ELSE d

PasskeySamples == {42}          \* `passkey` argument of passkey_display

\* passkeys for the formatter: the small ones, and the values around each
\* change of the number of digits up to the largest six-digit one
MaxSmallPasskey == 42
PasskeyEdges ==
    {99, 100, 999, 1000, 9999, 10000, 99999, 100000, 123456, 999999}
PasskeyInputs == (0..MaxSmallPasskey) \cup PasskeyEdges

\* one more bt_le_adv_start() call with outcome rc
adv_stat_count(st, rc) ==
    IF st.on
      THEN [st EXCEPT !.calls = @ + 1,
                      !.fails = IF rc # 0 THEN @ + 1 ELSE @]
      ELSE st

\* le_param_req() has handed no answer to the stack
NoAnswer == "none"

(***************************************************************************)
(* The notification queue of notifications.c: an array of                  *)
(* NOTIFICATION_QUEUE_SIZE entries, of which the first notification_count  *)
(* are queued.  An entry is modelled by its `id` and `active` fields (the  *)
(* type, the texts and the timestamp are copied along with them and are    *)
(* never read by the queue operations).                                    *)
(***************************************************************************)
NOTIFICATION_QUEUE_SIZE == 10
\* ids handed out in a run; the uint32_t counter starts at 1 and stays far
\* below its wrap at 2^32
MaxNotificationId == 12
Slots == 0..(NOTIFICATION_QUEUE_SIZE - 1)
ZeroedEntry == [id |-> 0, active |-> FALSE]
\* static notification_t notifications[NOTIFICATION_QUEUE_SIZE]
ZeroedQueue == [i \in Slots |-> ZeroedEntry]
\* a pointer into the array is the set of the one slot it points to
NULL == {}
AddressOf(i) == {i}
\* no notifications_get_by_index() call was made yet
NoGet == <<>>

(***************************************************************************)
(* Initial state: static initialisers, before main() has run.              *)
(***************************************************************************)
\* everything but the two recorders
InitBase ==
    /\ advertising = FALSE
    /\ bt_enabled = FALSE
    /\ ble_services_active = FALSE
    /\ adv_work = WorkIdle
    /\ ble_mutex = NoOwner
    /\ inited = FALSE
    /\ pc = [c \in Callers |-> "idle"]
    /\ err = [c \in Callers |-> 0]
    /\ ret = [c \in Callers |-> 0]
    /\ path = [c \in Callers |-> "none"]
    /\ calls = [c \in Callers |-> {}]
    /\ fails = [c \in Callers |-> {}]
    /\ jpc = "idle"
    /\ cpc = "idle"
    /\ cb_err = 0
    /\ term_req = NoTerm
    /\ auth_cb = FALSE
    /\ auth_info_cb = FALSE
    /\ bcast = FALSE
    /\ link = FALSE
    /\ recycle_due = FALSE
    /\ power_ok = 0
    /\ cb_passkey = 0
    /\ unfired_cancel = FALSE
    /\ ui_checkbox = FALSE
    /\ param_ret = NoAnswer
    /\ notifications = ZeroedQueue
    /\ notification_count = 0
    /\ next_notification_id = 1
    /\ get_ret = NoGet
    /\ notif_inited = FALSE

Init ==
    /\ InitBase
    /\ adv_stat = AdvStatOff
    /\ disp = DispOff

\* bluetooth_infrastructure_init(): k_mutex_init(&ble_mutex)
bluetooth_infrastructure_init ==
    /\ ~inited
    /\ inited' = TRUE
    /\ ble_mutex' = NoOwner
    /\ UNCHANGED extv
    /\ UNCHANGED <<flags, adv_work, callerv, jobv, cbv, stackv>>

(***************************************************************************)
(* Caller-thread bookkeeping.                                              *)
(***************************************************************************)
Goto(c, l)      == pc' = [pc EXCEPT ![c] = l]
Called(c, rs)   == calls' = [calls EXCEPT ![c] = @ \cup rs]
Failed(c, r, rc) == fails' = [fails EXCEPT ![c] = IF rc # 0 THEN @ \cup {r} ELSE @]

k_mutex_lock_not_exclusive(c) ==
    /\ ble_mutex' = c

\* k_mutex_lock(&ble_mutex, K_FOREVER)
k_mutex_lock(c) ==
    /\ ble_mutex = NoOwner
    /\ ble_mutex' = c

\* Each return path of enable()/disable() calls k_mutex_unlock(&ble_mutex).
UnlocksOnPath_not_on_failure(p) == p \in {"none", "already", "ok"}
UnlocksOnPath(p) == TRUE

k_mutex_unlock(c, p) ==
    ble_mutex' = IF UnlocksOnPath(p) THEN NoOwner ELSE ble_mutex

(***************************************************************************)
(* start_advertisement(): the test of line 63 and the schedule of line 64. *)
(***************************************************************************)
start_advertisement_guard_stack_only == bt_enabled
start_advertisement_guard == bt_enabled /\ ble_services_active

start_advertisement_forgotten(w) == w
start_advertisement(w) ==
    IF start_advertisement_guard THEN k_work_schedule(w, ADV_SETTLE_MS) ELSE w

(***************************************************************************)
(* stop_advertising() after its k_work_cancel_delayable(): lines 74-85.    *)
(* rc is the outcome of bt_le_adv_stop(); on failure the function returns  *)
(* before `advertising = false`.                                           *)
(***************************************************************************)
stop_advertising_flag(rc) ==
    IF ~advertising THEN advertising
    ELSE IF rc # 0 THEN advertising
    ELSE FALSE

\* stack side of bt_le_adv_stop(): a successful call ends the broadcast
bt_le_adv_stop_bcast(rc) ==
    IF advertising /\ rc = 0 THEN FALSE ELSE bcast

(***************************************************************************)
(* enable_bluetooth_subsystem()                                            *)
(***************************************************************************)
enable_call(c) ==
    /\ inited
    /\ pc[c] = "idle"
    /\ Goto(c, "e_lock")
    /\ UNCHANGED extv
    /\ UNCHANGED <<flags, adv_work, ble_mutex, inited, err, ret, path,
                   calls, fails, jobv, cbv, stackv>>

\* line 229
enable_lock(c) ==
    /\ pc[c] = "e_lock"
    /\ k_mutex_lock(c)
    /\ Goto(c, "e_check")
    /\ UNCHANGED extv
    /\ UNCHANGED <<flags, adv_work, inited, err, ret, path, calls, fails,
                   jobv, cbv, stackv>>

\* line 231: the already-enabled test
enable_already_wrong_flag == bt_enabled /\ advertising
enable_already == bt_enabled /\ ble_services_active

\* line 240: the stack is brought up only when it is not powered yet
enable_first_time_every_enable == ~ble_services_active
enable_first_time == ~bt_enabled

enable_check(c) ==
    /\ pc[c] = "e_check"
    /\ IF enable_already
         THEN /\ Goto(c, "e_unlock")
              /\ path' = [path EXCEPT ![c] = "already"]
              /\ ret' = [ret EXCEPT ![c] = 0]
         ELSE /\ Goto(c, IF enable_first_time THEN "e_bt_enable" ELSE "e_activate")
              /\ UNCHANGED <<path, ret>>
    /\ UNCHANGED extv
    /\ UNCHANGED <<flags, adv_work, ble_mutex, inited, err, calls, fails,
                   jobv, cbv, stackv>>

\* lines 244-252: bt_enabled is written only after bt_enable() succeeded
bt_enabled_set_before_test(rc) == TRUE
bt_enabled_never_recorded(rc) == bt_enabled
bt_enabled_after_bt_enable(rc) == IF rc = 0 THEN TRUE ELSE bt_enabled

\* lines 241-252: k_work_init_delayable, bt_enable, bt_enabled = true
enable_bt_enable(c) ==
    /\ pc[c] = "e_bt_enable"
    /\ \E rc \in Outcomes :
         /\ err' = [err EXCEPT ![c] = rc]
         /\ Failed(c, "bt_enable", rc)
         /\ IF rc # 0
              THEN /\ Goto(c, "e_unlock")
                   /\ path' = [path EXCEPT ![c] = "power_fail"]
                   /\ ret' = [ret EXCEPT ![c] = rc]
                   /\ UNCHANGED power_ok
              ELSE /\ Goto(c, "e_unpair")
                   /\ power_ok' = IF power_ok < MaxPowerOk
                                    THEN power_ok + 1 ELSE power_ok
                   /\ UNCHANGED <<path, ret>>
         /\ bt_enabled' = bt_enabled_after_bt_enable(rc)
    /\ adv_work' = k_work_init_delayable(adv_work)
    /\ Called(c, {"k_work_init_delayable", "bt_enable"})
    /\ UNCHANGED extv
    /\ UNCHANGED <<advertising, ble_services_active, ble_mutex, inited,
                   jobv, cbv, auth_cb, auth_info_cb, bcast, link, recycle_due>>

\* lines 255-257: a bt_unpair() failure is logged, enable() goes on
bt_unpair_failure_returns(rc) == rc # 0
bt_unpair_fatal(rc) == FALSE

\* lines 254-262: bt_unpair (failure only logged), settings_load
enable_unpair(c) ==
    /\ pc[c] = "e_unpair"
    /\ \E rc \in Outcomes :
         /\ err' = [err EXCEPT ![c] = rc]
         /\ Failed(c, "bt_unpair", rc)
         /\ IF bt_unpair_fatal(rc)
              THEN /\ Goto(c, "e_unlock")
                   /\ path' = [path EXCEPT ![c] = "unpair_fail"]
                   /\ ret' = [ret EXCEPT ![c] = rc]
                   /\ Called(c, {"bt_unpair"})
              ELSE /\ Goto(c, "e_auth_register")
                   /\ Called(c, {"bt_unpair", "settings_load"})
                   /\ UNCHANGED <<path, ret>>
    /\ UNCHANGED extv
    /\ UNCHANGED <<flags, adv_work, ble_mutex, inited, jobv, cbv, stackv>>

\* lines 266-272: bt_conn_auth_cb_register(&auth_callbacks)
enable_auth_register(c) ==
    /\ pc[c] = "e_auth_register"
    /\ \E rc \in Outcomes :
         /\ err' = [err EXCEPT ![c] = rc]
         /\ Failed(c, "bt_conn_auth_cb_register", rc)
         /\ IF rc # 0
              THEN /\ Goto(c, "e_unlock")
                   /\ path' = [path EXCEPT ![c] = "auth_fail"]
                   /\ ret' = [ret EXCEPT ![c] = rc]
                   /\ UNCHANGED auth_cb
              ELSE /\ Goto(c, "e_auth_info_register")
                   /\ auth_cb' = TRUE
                   /\ UNCHANGED <<path, ret>>
    /\ Called(c, {"bt_conn_auth_cb_register"})
    /\ UNCHANGED extv
    /\ UNCHANGED <<flags, adv_work, ble_mutex, inited, jobv, cbv,
                   auth_info_cb, bcast, link, recycle_due, power_ok>>

\* line 277: bt_conn_auth_cb_register(NULL) after a failed info registration
auth_cb_left_registered == auth_cb
auth_cb_after_info_failure == FALSE

\* lines 274-281: bt_conn_auth_info_cb_register(&auth_info_callbacks)
enable_auth_info_register(c) ==
    /\ pc[c] = "e_auth_info_register"
    /\ \E rc \in Outcomes :
         /\ err' = [err EXCEPT ![c] = rc]
         /\ Failed(c, "bt_conn_auth_info_cb_register", rc)
         /\ IF rc # 0
              THEN /\ Goto(c, "e_unlock")
                   /\ path' = [path EXCEPT ![c] = "info_fail"]
                   /\ ret' = [ret EXCEPT ![c] = rc]
                   /\ auth_cb' = auth_cb_after_info_failure
                   /\ UNCHANGED auth_info_cb
              ELSE /\ Goto(c, "e_activate")
                   /\ auth_info_cb' = TRUE
                   /\ UNCHANGED <<path, ret, auth_cb>>
    /\ Called(c, {"bt_conn_auth_info_cb_register"})
    /\ UNCHANGED extv
    /\ UNCHANGED <<flags, adv_work, ble_mutex, inited, jobv, cbv,
                   bcast, link, recycle_due, power_ok>>

\* line 285: ble_services_active = true
enable_activate(c) ==
    /\ pc[c] = "e_activate"
    /\ ble_services_active' = TRUE
    /\ unfired_cancel' = FALSE
    /\ Goto(c, "e_start_advertisement")
    /\ UNCHANGED <<pairv, adv_stat, ui_checkbox,
                 paramv, notifv>>
    /\ UNCHANGED <<advertising, bt_enabled, adv_work, ble_mutex, inited,
                   err, ret, path, calls, fails, jobv, cbv, stackv>>

\* line 286: start_advertisement(); line 290: return 0
enable_start_advertisement(c) ==
    /\ pc[c] = "e_start_advertisement"
    /\ adv_work' = start_advertisement(adv_work)
    /\ Called(c, IF start_advertisement_guard THEN {"k_work_schedule"} ELSE {})
    /\ path' = [path EXCEPT ![c] = "ok"]
    /\ ret' = [ret EXCEPT ![c] = 0]
    /\ Goto(c, "e_unlock")
    /\ UNCHANGED extv
    /\ UNCHANGED <<flags, ble_mutex, inited, err, fails, jobv, cbv, stackv>>

\* lines 233, 246, 269, 278, 288: k_mutex_unlock on the path taken
enable_unlock(c) ==
    /\ pc[c] = "e_unlock"
    /\ k_mutex_unlock(c, path[c])
    /\ Goto(c, "e_done")
    /\ UNCHANGED extv
    /\ UNCHANGED <<flags, adv_work, inited, err, ret, path, calls, fails,
                   jobv, cbv, stackv>>

\* the caller has the return value in hand and goes on
enable_return(c) ==
    /\ pc[c] = "e_done"
    /\ Goto(c, "idle")
    /\ err' = [err EXCEPT ![c] = 0]
    /\ ret' = [ret EXCEPT ![c] = 0]
    /\ path' = [path EXCEPT ![c] = "none"]
    /\ calls' = [calls EXCEPT ![c] = {}]
    /\ fails' = [fails EXCEPT ![c] = {}]
    /\ UNCHANGED extv
    /\ UNCHANGED <<flags, adv_work, ble_mutex, inited, jobv, cbv, stackv>>

(***************************************************************************)
(* disable_bluetooth_subsystem()                                           *)
(***************************************************************************)
disable_call(c) ==
    /\ inited
    /\ pc[c] = "idle"
    /\ Goto(c, "d_lock")
    /\ UNCHANGED extv
    /\ UNCHANGED <<flags, adv_work, ble_mutex, inited, err, ret, path,
                   calls, fails, jobv, cbv, stackv>>

\* line 295
disable_lock(c) ==
    /\ pc[c] = "d_lock"
    /\ k_mutex_lock(c)
    /\ Goto(c, "d_check")
    /\ UNCHANGED extv
    /\ UNCHANGED <<flags, adv_work, inited, err, ret, path, calls, fails,
                   jobv, cbv, stackv>>

\* line 297: the already-disabled test
disable_already_never == FALSE
disable_already == ~ble_services_active

\* lines 297-301
disable_check(c) ==
    /\ pc[c] = "d_check"
    /\ IF disable_already
         THEN /\ Goto(c, "d_unlock")
              /\ path' = [path EXCEPT ![c] = "already"]
              /\ ret' = [ret EXCEPT ![c] = 0]
         ELSE /\ Goto(c, "d_clear")
              /\ UNCHANGED <<path, ret>>
    /\ UNCHANGED extv
    /\ UNCHANGED <<flags, adv_work, ble_mutex, inited, err, calls, fails,
                   jobv, cbv, stackv>>

\* line 307: ble_services_active = false, written before stop_advertising()
disable_clear_not_yet == ble_services_active
disable_clear_value == FALSE

disable_clear(c) ==
    /\ pc[c] = "d_clear"
    /\ ble_services_active' = disable_clear_value
    /\ Goto(c, "d_cancel")
    /\ UNCHANGED extv
    /\ UNCHANGED <<advertising, bt_enabled, adv_work, ble_mutex, inited,
                   err, ret, path, calls, fails, jobv, cbv, stackv>>

\* line 310 -> line 72: stop_advertising() cancels the job
disable_cancel(c) ==
    /\ pc[c] = "d_cancel"
    /\ adv_work' = k_work_cancel_delayable(adv_work, JobRunning)
    /\ unfired_cancel' = ( /\ adv_work.pending /\ ~JobRunning
                           /\ ~advertising /\ ~bcast )
    /\ Called(c, {"k_work_cancel_delayable"})
    /\ Goto(c, "d_stop")
    /\ UNCHANGED <<pairv, adv_stat, ui_checkbox,
                 paramv, notifv>>
    /\ UNCHANGED <<flags, ble_mutex, inited, err, ret, path, fails,
                   jobv, cbv, stackv>>

\* line 310 -> lines 74-85: stop_advertising() stops the broadcast
disable_stop(c) ==
    /\ pc[c] = "d_stop"
    /\ \E rc \in Outcomes :
         /\ advertising' = stop_advertising_flag(rc)
         /\ bcast' = bt_le_adv_stop_bcast(rc)
         /\ fails' = [fails EXCEPT ![c] =
                        IF advertising /\ rc # 0 THEN @ \cup {"bt_le_adv_stop"} ELSE @]
    /\ Called(c, IF advertising THEN {"bt_le_adv_stop"} ELSE {})
    /\ Goto(c, "d_disconnect")
    /\ UNCHANGED extv
    /\ UNCHANGED <<bt_enabled, ble_services_active, adv_work, ble_mutex,
                   inited, err, ret, path, jobv, cbv, auth_cb, auth_info_cb,
                   link, recycle_due, power_ok>>

\* lines 88-94: disconnect_all_connections() only sleeps; the routines it
\* calls on the stack and the links it leaves up
disconnect_all_connections_calls == {}
disconnect_all_connections_forced(l) == FALSE
disconnect_all_connections_link(l) == l

\* line 314: disconnect_all_connections(); line 325: return 0
disable_disconnect(c) ==
    /\ pc[c] = "d_disconnect"
    /\ Called(c, disconnect_all_connections_calls)
    /\ link' = disconnect_all_connections_link(link)
    /\ path' = [path EXCEPT ![c] = "ok"]
    /\ ret' = [ret EXCEPT ![c] = 0]
    /\ Goto(c, "d_unlock")
    /\ UNCHANGED extv
    /\ UNCHANGED <<flags, adv_work, ble_mutex, inited, err, fails, jobv, cbv,
                   auth_cb, auth_info_cb, bcast, recycle_due, power_ok>>

\* lines 299, 323: k_mutex_unlock on the path taken
disable_unlock(c) ==
    /\ pc[c] = "d_unlock"
    /\ k_mutex_unlock(c, path[c])
    /\ Goto(c, "d_done")
    /\ UNCHANGED extv
    /\ UNCHANGED <<flags, adv_work, inited, err, ret, path, calls, fails,
                   jobv, cbv, stackv>>

disable_return(c) ==
    /\ pc[c] = "d_done"
    /\ Goto(c, "idle")
    /\ err' = [err EXCEPT ![c] = 0]
    /\ ret' = [ret EXCEPT ![c] = 0]
    /\ path' = [path EXCEPT ![c] = "none"]
    /\ calls' = [calls EXCEPT ![c] = {}]
    /\ fails' = [fails EXCEPT ![c] = {}]
    /\ UNCHANGED extv
    /\ UNCHANGED <<flags, adv_work, ble_mutex, inited, jobv, cbv, stackv>>

(***************************************************************************)
(* The advertising job: start_advertising_work() on the work queue.        *)
(***************************************************************************)
\* the work queue picks the pending item up and enters the handler
adv_work_run ==
    /\ adv_work.pending
    /\ jpc = "idle"
    /\ adv_work' = [adv_work EXCEPT !.pending = FALSE, !.delay = 0]
    /\ jpc' = "j_check"
    /\ UNCHANGED extv
    /\ UNCHANGED <<flags, ble_mutex, inited, callerv, cbv, stackv>>

\* the handler returns: a cancellation issued meanwhile is finalised
adv_work_done(w) == [w EXCEPT !.canceling = FALSE]

\* line 44
start_advertising_work_guard_ignores_advertising ==
    bt_enabled /\ ble_services_active
start_advertising_work_guard_no_services == ~(advertising \/ ~bt_enabled)
start_advertising_work_guard ==
    ~(advertising \/ ~bt_enabled \/ ~ble_services_active)

start_advertising_work_check ==
    /\ jpc = "j_check"
    /\ IF start_advertising_work_guard
         THEN /\ jpc' = "j_adv_start"
              /\ UNCHANGED adv_work
         ELSE /\ jpc' = "j_return"
              /\ UNCHANGED adv_work
    /\ UNCHANGED extv
    /\ UNCHANGED <<flags, ble_mutex, inited, callerv, cbv, stackv>>

\* line 48: bt_le_adv_start(); the stack refuses (-EALREADY) when it is
\* already broadcasting
start_advertising_work_adv_start ==
    /\ jpc = "j_adv_start"
    /\ \E rc \in Outcomes :
         /\ bcast => rc # 0
         /\ (adv_stat.on /\ rc # 0) => adv_stat.fails < MaxAdvFailures
         /\ adv_stat' = adv_stat_count(adv_stat, rc)
         /\ IF rc # 0
              THEN /\ jpc' = "j_retry"
                   /\ UNCHANGED bcast
              ELSE /\ jpc' = "j_set"
                   /\ bcast' = TRUE
    /\ UNCHANGED <<pairv, unfired_cancel, ui_checkbox,
                 paramv, notifv>>
    /\ UNCHANGED <<flags, adv_work, ble_mutex, inited, callerv, cbv,
                   auth_cb, auth_info_cb, link, recycle_due, power_ok>>

\* line 51: the retry is scheduled only while the services are still on
start_advertising_work_no_retry == FALSE
start_advertising_work_retry_guard == bt_enabled /\ ble_services_active

\* lines 50-54: retry after a failed start
start_advertising_work_retry ==
    /\ jpc = "j_retry"
    /\ adv_work' = IF start_advertising_work_retry_guard
                      THEN k_work_schedule(adv_work, ADV_BACKOFF_MS)
                      ELSE adv_work
    /\ jpc' = "j_return"
    /\ UNCHANGED extv
    /\ UNCHANGED <<flags, ble_mutex, inited, callerv, cbv, stackv>>

\* line 57: advertising = true
start_advertising_work_set ==
    /\ jpc = "j_set"
    /\ advertising' = TRUE
    /\ jpc' = "j_return"
    /\ UNCHANGED extv
    /\ UNCHANGED <<bt_enabled, ble_services_active, adv_work, ble_mutex,
                   inited, callerv, cbv, stackv>>

\* lines 45, 54 and 59: the handler returns to the work queue, which
\* finalises a cancellation issued while the handler ran
start_advertising_work_return ==
    /\ jpc = "j_return"
    /\ adv_work' = adv_work_done(adv_work)
    /\ jpc' = "idle"
    /\ UNCHANGED extv
    /\ UNCHANGED <<flags, ble_mutex, inited, callerv, cbv, stackv>>

(***************************************************************************)
(* Connection callbacks (BT_CONN_CB_DEFINE(connection_callbacks)), run on  *)
(* the stack's notification thread one at a time.                          *)
(***************************************************************************)
\* the stack reports a connection attempt that ended its broadcast
connected(e) ==
    /\ cpc = "idle"
    /\ bcast /\ ~link
    /\ bcast' = FALSE
    /\ link' = (e = 0)
    /\ recycle_due' = IF e # 0 THEN TRUE ELSE recycle_due
    /\ cb_err' = e
    /\ term_req' = NoTerm
    /\ cpc' = "c_connected"
    /\ UNCHANGED extv
    /\ UNCHANGED <<flags, adv_work, ble_mutex, inited, callerv, jobv,
                   auth_cb, auth_info_cb, power_ok>>

\* line 100: a connection is unwelcome while the services are off
process_connection_never_rejects == FALSE
process_connection_rejects == ~ble_services_active

\* line 102: if (!err) bt_conn_disconnect(conn, ...)
process_connection_disconnects_on_error == TRUE
process_connection_disconnects == cb_err = 0

\* lines 100-106 and the branch of line 110
process_connection_check ==
    /\ cpc = "c_connected"
    /\ IF process_connection_rejects
         THEN /\ term_req' = IF process_connection_disconnects
                               THEN BT_HCI_ERR_REMOTE_USER_TERM_CONN
                               ELSE term_req
              /\ cpc' = "idle"
         ELSE /\ cpc' = IF cb_err # 0 THEN "c_conn_failed" ELSE "c_stop_cancel"
              /\ UNCHANGED term_req
    /\ UNCHANGED extv
    /\ UNCHANGED <<flags, adv_work, ble_mutex, inited, callerv, jobv,
                   cb_err, stackv>>

\* line 112
process_connection_failed ==
    /\ cpc = "c_conn_failed"
    /\ cpc' = IF ble_services_active THEN "c_start_adv" ELSE "idle"
    /\ UNCHANGED extv
    /\ UNCHANGED <<flags, adv_work, ble_mutex, inited, callerv, jobv,
                   cb_err, term_req, stackv>>

\* line 119 -> line 72
process_connection_cancel ==
    /\ cpc = "c_stop_cancel"
    /\ adv_work' = k_work_cancel_delayable(adv_work, JobRunning)
    /\ cpc' = "c_stop"
    /\ UNCHANGED extv
    /\ UNCHANGED <<flags, ble_mutex, inited, callerv, jobv, cb_err,
                   term_req, stackv>>

\* line 119 -> lines 74-85
process_connection_stop ==
    /\ cpc = "c_stop"
    /\ \E rc \in Outcomes :
         /\ advertising' = stop_advertising_flag(rc)
         /\ bcast' = bt_le_adv_stop_bcast(rc)
    /\ cpc' = "idle"
    /\ UNCHANGED extv
    /\ UNCHANGED <<bt_enabled, ble_services_active, adv_work, ble_mutex,
                   inited, callerv, jobv, cb_err, term_req, auth_cb,
                   auth_info_cb, link, recycle_due, power_ok>>

\* the stack reports the loss of the link
disconnected ==
    /\ cpc = "idle"
    /\ link
    /\ link' = FALSE
    /\ recycle_due' = TRUE
    /\ term_req' = NoTerm
    /\ cpc' = "c_disconnected"
    /\ UNCHANGED extv
    /\ UNCHANGED <<flags, adv_work, ble_mutex, inited, callerv, jobv,
                   cb_err, auth_cb, auth_info_cb, bcast, power_ok>>

\* line 129
process_disconnection_never_resumes == FALSE
process_disconnection_guard == bt_enabled /\ ble_services_active

process_disconnection_check ==
    /\ cpc = "c_disconnected"
    /\ cpc' = IF process_disconnection_guard THEN "c_start_adv" ELSE "idle"
    /\ UNCHANGED extv
    /\ UNCHANGED <<flags, adv_work, ble_mutex, inited, callerv, jobv,
                   cb_err, term_req, stackv>>

\* the stack reports that a connection object was recycled
\* (.recycled = start_advertisement)
recycled ==
    /\ cpc = "idle"
    /\ recycle_due
    /\ recycle_due' = FALSE
    /\ term_req' = NoTerm
    /\ cpc' = "c_start_adv"
    /\ UNCHANGED extv
    /\ UNCHANGED <<flags, adv_work, ble_mutex, inited, callerv, jobv,
                   cb_err, auth_cb, auth_info_cb, bcast, link, power_ok>>

\* start_advertisement() on the notification thread: line 63
start_advertisement_check ==
    /\ cpc = "c_start_adv"
    /\ cpc' = IF start_advertisement_guard THEN "c_schedule" ELSE "idle"
    /\ UNCHANGED extv
    /\ UNCHANGED <<flags, adv_work, ble_mutex, inited, callerv, jobv,
                   cb_err, term_req, stackv>>

\* start_advertisement() on the notification thread: line 64
start_advertisement_schedule ==
    /\ cpc = "c_schedule"
    /\ adv_work' = k_work_schedule(adv_work, ADV_SETTLE_MS)
    /\ cpc' = "idle"
    /\ UNCHANGED extv
    /\ UNCHANGED <<flags, ble_mutex, inited, callerv, jobv, cb_err,
                   term_req, stackv>>

(***************************************************************************)
(* passkey_to_string(): snprintf(passkey_str, sizeof(passkey_str),         *)
(* "%06u", passkey).  A string is a sequence of one-character strings.     *)
(***************************************************************************)
PASSKEY_STR_SIZE == 7           \* static char passkey_str[7]
PASSKEY_WIDTH    == 6           \* the field width of "%06u"

DigitChars == <<"0", "1", "2", "3", "4", "5", "6", "7", "8", "9">>

\* the decimal digits of n, most significant first ("%u")
RECURSIVE DecimalDigits(_)
DecimalDigits(n) ==
    IF n < 10 THEN <<DigitChars[n + 1]>>
              ELSE Append(DecimalDigits(n \div 10), DigitChars[(n % 10) + 1])

\* "%06u": at least PASSKEY_WIDTH characters, padded on the left with '0'
format_06u_unpadded(n) == DecimalDigits(n)
format_06u(n) ==
    LET d == DecimalDigits(n)
    IN  IF Len(d) >= PASSKEY_WIDTH
          THEN d
          ELSE [i \in 1..(PASSKEY_WIDTH - Len(d)) |-> DigitChars[1]] \o d

\* snprintf() keeps at most size - 1 characters
snprintf(size, str) ==
    IF Len(str) <= size - 1 THEN str ELSE SubSeq(str, 1, size - 1)

passkey_to_string(passkey) == snprintf(PASSKEY_STR_SIZE, format_06u(passkey))

(***************************************************************************)
(* Pairing callbacks (auth_callbacks, auth_info_callbacks), run on the     *)
(* stack's notification thread for the link that is up, once the tables    *)
(* are registered.                                                         *)
(***************************************************************************)
\* room left in the record of pairing-screen calls
DispRoom(n) == disp.on => Len(disp.calls) + n <= MaxDispCalls

\* the stack asks for a passkey to be shown
passkey_display(pk) ==
    /\ cpc = "idle"
    /\ link /\ auth_cb
    /\ DispRoom(3)
    /\ cb_passkey' = pk
    /\ term_req' = NoTerm
    /\ cpc' = "c_passkey"
    /\ UNCHANGED <<disp, adv_stat, unfired_cancel, ui_checkbox,
                 paramv, notifv>>
    /\ UNCHANGED <<flags, adv_work, ble_mutex, inited, callerv, jobv,
                   cb_err, stackv>>

\* line 172: if (!ble_services_active) return;
process_passkey_display_unguarded == TRUE
process_passkey_display_guard == ble_services_active

process_passkey_display_check ==
    /\ cpc = "c_passkey"
    /\ IF process_passkey_display_guard
         THEN cpc' = "c_passkey_show" /\ UNCHANGED cb_passkey
         ELSE cpc' = "idle" /\ cb_passkey' = 0
    /\ UNCHANGED <<disp, adv_stat, unfired_cancel, ui_checkbox,
                 paramv, notifv>>
    /\ UNCHANGED <<flags, adv_work, ble_mutex, inited, callerv, jobv,
                   cb_err, term_req, stackv>>

\* lines 176-178
process_passkey_display_calls_load_first == <<"load", "init", "set_pin">>
process_passkey_display_calls == <<"init", "set_pin", "load">>

process_passkey_display_show ==
    /\ cpc = "c_passkey_show"
    /\ disp' = disp_log(disp, process_passkey_display_calls,
                        passkey_to_string(cb_passkey))
    /\ cb_passkey' = 0
    /\ cpc' = "idle"
    /\ UNCHANGED <<adv_stat, unfired_cancel, ui_checkbox,
                 paramv, notifv>>
    /\ UNCHANGED <<flags, adv_work, ble_mutex, inited, callerv, jobv,
                   cb_err, term_req, stackv>>

\* the peer or the stack cancels the pairing
auth_cancel ==
    /\ cpc = "idle"
    /\ link /\ auth_cb
    /\ DispRoom(1)
    /\ term_req' = NoTerm
    /\ cpc' = "c_auth_cancel"
    /\ UNCHANGED extv
    /\ UNCHANGED <<flags, adv_work, ble_mutex, inited, callerv, jobv,
                   cb_err, stackv>>

\* line 190
process_auth_cancel ==
    /\ cpc = "c_auth_cancel"
    /\ disp' = disp_log(disp, <<"unload">>, disp.pin)
    /\ cpc' = "idle"
    /\ UNCHANGED <<cb_passkey, adv_stat, unfired_cancel, ui_checkbox,
                 paramv, notifv>>
    /\ UNCHANGED <<flags, adv_work, ble_mutex, inited, callerv, jobv,
                   cb_err, term_req, stackv>>

\* the stack reports that the pairing came to its end
pairing_complete ==
    /\ cpc = "idle"
    /\ link /\ auth_info_cb
    /\ DispRoom(1)
    /\ term_req' = NoTerm
    /\ cpc' = "c_pairing_complete"
    /\ UNCHANGED extv
    /\ UNCHANGED <<flags, adv_work, ble_mutex, inited, callerv, jobv,
                   cb_err, stackv>>

\* line 196
process_pairing_complete ==
    /\ cpc = "c_pairing_complete"
    /\ disp' = disp_log(disp, <<"unload">>, disp.pin)
    /\ cpc' = "idle"
    /\ UNCHANGED <<cb_passkey, adv_stat, unfired_cancel, ui_checkbox,
                 paramv, notifv>>
    /\ UNCHANGED <<flags, adv_work, ble_mutex, inited, callerv, jobv,
                   cb_err, term_req, stackv>>

\* the stack reports that the pairing failed
pairing_failed ==
    /\ cpc = "idle"
    /\ link /\ auth_info_cb
    /\ DispRoom(1)
    /\ term_req' = NoTerm
    /\ cpc' = "c_pairing_failed"
    /\ UNCHANGED extv
    /\ UNCHANGED <<flags, adv_work, ble_mutex, inited, callerv, jobv,
                   cb_err, stackv>>

\* line 202: if (ble_services_active) bt_conn_disconnect(conn, ...)
process_pairing_failed_disconnects_always == TRUE
process_pairing_failed_guard == ble_services_active

\* lines 202-205
process_pairing_failed_calls == <<"unload">>

process_pairing_failed ==
    /\ cpc = "c_pairing_failed"
    /\ term_req' = IF process_pairing_failed_guard THEN BT_HCI_ERR_AUTH_FAIL
                                                   ELSE term_req
    /\ disp' = disp_log(disp, process_pairing_failed_calls, disp.pin)
    /\ cpc' = "idle"
    /\ UNCHANGED <<cb_passkey, adv_stat, unfired_cancel, ui_checkbox,
                 paramv, notifv>>
    /\ UNCHANGED <<flags, adv_work, ble_mutex, inited, callerv, jobv,
                   cb_err, stackv>>

(***************************************************************************)
(* Connection-parameter callbacks (lines 134-151).  The requested and the  *)
(* new parameters are only logged.                                         *)
(***************************************************************************)
\* the stack asks whether the peer's parameter request is acceptable
param_req ==
    /\ cpc = "idle"
    /\ link
    /\ param_ret' = NoAnswer
    /\ cpc' = "c_param_req"
    /\ UNCHANGED <<pairv, adv_stat, unfired_cancel, ui_checkbox, notifv>>
    /\ UNCHANGED <<flags, adv_work, ble_mutex, inited, callerv, jobv,
                   cb_err, term_req, stackv>>

\* line 136: if (!ble_services_active) return false;
le_param_req_accepts_always == TRUE
le_param_req_guard == ble_services_active

\* lines 134-144
le_param_req ==
    /\ cpc = "c_param_req"
    /\ param_ret' = le_param_req_guard
    /\ cpc' = "c_param_ret"
    /\ UNCHANGED <<pairv, adv_stat, unfired_cancel, ui_checkbox, notifv>>
    /\ UNCHANGED <<flags, adv_work, ble_mutex, inited, callerv, jobv,
                   cb_err, term_req, stackv>>

\* the stack takes the answer and goes on with the parameter update
param_req_answered ==
    /\ cpc = "c_param_ret"
    /\ param_ret' = NoAnswer
    /\ cpc' = "idle"
    /\ UNCHANGED <<pairv, adv_stat, unfired_cancel, ui_checkbox, notifv>>
    /\ UNCHANGED <<flags, adv_work, ble_mutex, inited, callerv, jobv,
                   cb_err, term_req, stackv>>

\* the stack reports the parameters now in use
param_updated ==
    /\ cpc = "idle"
    /\ link
    /\ cpc' = "c_param_updated"
    /\ UNCHANGED extv
    /\ UNCHANGED <<flags, adv_work, ble_mutex, inited, callerv, jobv,
                   cb_err, term_req, stackv>>

le_param_updated_deactivates ==
    /\ cpc = "c_param_updated"
    /\ cpc' = "idle"
    /\ ble_services_active' = FALSE
    /\ UNCHANGED extv
    /\ UNCHANGED <<advertising, bt_enabled, adv_work, ble_mutex, inited,
                   callerv, jobv, cb_err, term_req, stackv>>

\* lines 146-151: one log line
le_param_updated ==
    /\ cpc = "c_param_updated"
    /\ cpc' = "idle"
    /\ UNCHANGED extv
    /\ UNCHANGED <<flags, adv_work, ble_mutex, inited, callerv, jobv,
                   cb_err, term_req, stackv>>

(***************************************************************************)
(* The notification queue                                                  *)
(* (src/src/bluetooth/services/notifications.c).  Each operation is one    *)
(* step.  The pop-up, the registered callback and the list display that    *)
(* add_notification() and the clear operations drive afterwards do not     *)
(* touch the queue.                                                        *)
(***************************************************************************)
\* everything of infrastructure.c and of the settings screen
blev == <<flags, adv_work, ble_mutex, inited, callerv, jobv, cbv, stackv,
          pairv, adv_stat, unfired_cancel, ui_checkbox, paramv>>

\* memmove(&a[dst], &a[src], n * sizeof(notification_t)) with src = dst + 1
memmove_down(a, dst, n) ==
    [i \in Slots |-> IF i >= dst /\ i < dst + n THEN a[i + 1] ELSE a[i]]

\* main.c line 102 -> notifications.c lines 303-305
notifications_init ==
    /\ ~notif_inited
    /\ notif_inited' = TRUE
    /\ notifications' = ZeroedQueue
    /\ notification_count' = 0
    /\ next_notification_id' = 1
    /\ UNCHANGED get_ret
    /\ UNCHANGED blev

\* line 177: the queue is full, the oldest entry has to go
add_notification_never_evicts == FALSE
add_notification_evicts == notification_count >= NOTIFICATION_QUEUE_SIZE

\* line 185: notif->id = next_notification_id++
next_notification_id_reused(n) == n
next_notification_id_after(n) == n + 1

\* lines 174-211
add_notification ==
    /\ next_notification_id <= MaxNotificationId
    /\ LET evict == add_notification_evicts
           moved == IF evict
                      THEN memmove_down(notifications, 0,
                                        NOTIFICATION_QUEUE_SIZE - 1)
                      ELSE notifications
           count == IF evict THEN notification_count - 1
                             ELSE notification_count
           notif == [id |-> next_notification_id, active |-> TRUE]
       IN  /\ notifications' = [moved EXCEPT ![count] = notif]
           /\ notification_count' = count + 1
    /\ next_notification_id' = next_notification_id_after(next_notification_id)
    /\ UNCHANGED <<get_ret, notif_inited>>
    /\ UNCHANGED blev

\* lines 380-386: NULL, or the address of notifications[index]
notifications_get_by_index(index) ==
    IF index < 0 \/ index >= notification_count THEN NULL
                                                 ELSE AddressOf(index)

\* indices asked for: both ends of the array, the values just outside them
\* and two slots in between
IndexInputs == {-1, 0, 1, 4, NOTIFICATION_QUEUE_SIZE - 1,
                NOTIFICATION_QUEUE_SIZE, NOTIFICATION_QUEUE_SIZE + 1}

\* a caller asks for the entry at an index
get_by_index_call(index) ==
    /\ get_ret' = <<[index |-> index,
                      ret |-> notifications_get_by_index(index)]>>
    /\ UNCHANGED <<notifications, notification_count, next_notification_id,
                   notif_inited>>
    /\ UNCHANGED blev

\* lines 389-395
notifications_clear_all ==
    /\ notification_count' = 0
    /\ notifications' = ZeroedQueue
    /\ UNCHANGED <<next_notification_id, get_ret, notif_inited>>
    /\ UNCHANGED blev

\* lines 400-401: the first queued entry that carries the id, or none
clear_by_id_matches(id) ==
    {i \in 0..(notification_count - 1) : notifications[i].id = id}

\* lines 398-410: the queue and the count that the call leaves behind
clear_by_id_result(id) ==
    IF clear_by_id_matches(id) = {}
      THEN [queue |-> notifications, count |-> notification_count]
      ELSE LET i == CHOOSE m \in clear_by_id_matches(id) :
                        \A k \in clear_by_id_matches(id) : m <= k
           IN  [queue |-> memmove_down(notifications, i,
                                       notification_count - i - 1),
                count |-> notification_count - 1]

\* ids asked for: the id of no entry (0), the first id handed out, two in
\* between, the one that fills the queue, the one that first evicts, and one
\* that is not handed out
ClearIdInputs == {0, 1, 3, 7, NOTIFICATION_QUEUE_SIZE,
                  NOTIFICATION_QUEUE_SIZE + 1, MaxNotificationId + 1}

notifications_clear_by_id(id) ==
    /\ notifications' = clear_by_id_result(id).queue
    /\ notification_count' = clear_by_id_result(id).count
    /\ UNCHANGED <<next_notification_id, get_ret, notif_inited>>
    /\ UNCHANGED blev

NextNotify ==
    \/ notifications_init
    \/ add_notification
    \/ \E index \in IndexInputs : get_by_index_call(index)
    \/ notifications_clear_all
    \/ \E id \in ClearIdInputs : notifications_clear_by_id(id)

SpecNotify == Init /\ [][NextNotify]_vars

(***************************************************************************)
(* is_bluetooth_services_active() and its caller in the settings screen    *)
(* (src/src/userinterface/screens/settings/settings.c lines 212-222).      *)
(***************************************************************************)
\* lines 329-332: there is no k_mutex_lock() before the read
is_bluetooth_services_active_locked == ble_mutex = NoOwner
is_bluetooth_services_active_guard == TRUE

is_bluetooth_services_active == ble_services_active

\* settings.c lines 216-220: check or uncheck the "Enable BLE" box
settings_screen_refresh_ble_state ==
    /\ is_bluetooth_services_active_guard
    /\ ui_checkbox' = is_bluetooth_services_active
    /\ UNCHANGED <<pairv, adv_stat, unfired_cancel, paramv, notifv>>
    /\ UNCHANGED <<flags, adv_work, ble_mutex, inited, callerv, jobv, cbv,
                   stackv>>

(***************************************************************************)
(* The system.                                                             *)
(***************************************************************************)
Next ==
    \/ bluetooth_infrastructure_init
    \/ \E c \in Callers : enable_call(c)
    \/ \E c \in Callers : enable_lock(c)
    \/ \E c \in Callers : enable_check(c)
    \/ \E c \in Callers : enable_bt_enable(c)
    \/ \E c \in Callers : enable_unpair(c)
    \/ \E c \in Callers : enable_auth_register(c)
    \/ \E c \in Callers : enable_auth_info_register(c)
    \/ \E c \in Callers : enable_activate(c)
    \/ \E c \in Callers : enable_start_advertisement(c)
    \/ \E c \in Callers : enable_unlock(c)
    \/ \E c \in Callers : enable_return(c)
    \/ \E c \in Callers : disable_call(c)
    \/ \E c \in Callers : disable_lock(c)
    \/ \E c \in Callers : disable_check(c)
    \/ \E c \in Callers : disable_clear(c)
    \/ \E c \in Callers : disable_cancel(c)
    \/ \E c \in Callers : disable_stop(c)
    \/ \E c \in Callers : disable_disconnect(c)
    \/ \E c \in Callers : disable_unlock(c)
    \/ \E c \in Callers : disable_return(c)
    \/ adv_work_run
    \/ start_advertising_work_check
    \/ start_advertising_work_adv_start
    \/ start_advertising_work_retry
    \/ start_advertising_work_set
    \/ start_advertising_work_return
    \/ \E e \in ConnErrs : connected(e)
    \/ process_connection_check
    \/ process_connection_failed
    \/ process_connection_cancel
    \/ process_connection_stop
    \/ disconnected
    \/ process_disconnection_check
    \/ recycled
    \/ start_advertisement_check
    \/ start_advertisement_schedule
    \/ \E pk \in PasskeySamples : passkey_display(pk)
    \/ process_passkey_display_check
    \/ process_passkey_display_show
    \/ auth_cancel
    \/ process_auth_cancel
    \/ pairing_complete
    \/ process_pairing_complete
    \/ pairing_failed
    \/ process_pairing_failed

Spec == Init /\ [][Next]_vars

(***************************************************************************)
(* The device after boot with the services left on: main() calls init()    *)
(* and enable() (src/src/main.c lines 52 and 94) and nobody calls          *)
(* disable().  The work queue runs a submitted job, a callback that has    *)
(* been entered runs to its end, the stack reports a freed connection      *)
(* object, and bt_le_adv_start() does not fail forever.                    *)
(***************************************************************************)
BootCaller == "main"

\* main() calls enable() at boot; it is called again only while the
\* services are not active
boot_enable_call ==
    /\ ~ble_services_active
    /\ enable_call(BootCaller)

NextBoot ==
    \/ bluetooth_infrastructure_init
    \/ boot_enable_call
    \/ enable_lock(BootCaller)
    \/ enable_check(BootCaller)
    \/ enable_bt_enable(BootCaller)
    \/ enable_unpair(BootCaller)
    \/ enable_auth_register(BootCaller)
    \/ enable_auth_info_register(BootCaller)
    \/ enable_activate(BootCaller)
    \/ enable_start_advertisement(BootCaller)
    \/ enable_unlock(BootCaller)
    \/ enable_return(BootCaller)
    \/ adv_work_run
    \/ start_advertising_work_check
    \/ start_advertising_work_adv_start
    \/ start_advertising_work_retry
    \/ start_advertising_work_set
    \/ start_advertising_work_return
    \/ \E e \in ConnErrs : connected(e)
    \/ process_connection_check
    \/ process_connection_failed
    \/ process_connection_cancel
    \/ process_connection_stop
    \/ disconnected
    \/ process_disconnection_check
    \/ recycled
    \/ start_advertisement_check
    \/ start_advertisement_schedule

\* the job body and the handed-over work item make progress
JobFairness ==
    /\ WF_vars(adv_work_run)
    /\ WF_vars(start_advertising_work_check)
    /\ WF_vars(start_advertising_work_adv_start)
    /\ WF_vars(start_advertising_work_retry)
    /\ WF_vars(start_advertising_work_set)
    /\ WF_vars(start_advertising_work_return)
    /\ SF_vars(start_advertising_work_adv_start /\ jpc' = "j_set")

\* a callback that was entered runs to its end
CallbackFairness ==
    /\ WF_vars(process_connection_check)
    /\ WF_vars(process_connection_failed)
    /\ WF_vars(process_connection_cancel)
    /\ WF_vars(process_connection_stop)
    /\ WF_vars(process_disconnection_check)
    /\ WF_vars(start_advertisement_check)
    /\ WF_vars(start_advertisement_schedule)

\* a call of enable() that was made runs to its return
EnableFairness ==
    /\ WF_vars(bluetooth_infrastructure_init)
    /\ WF_vars(enable_lock(BootCaller))
    /\ WF_vars(enable_check(BootCaller))
    /\ WF_vars(enable_bt_enable(BootCaller))
    /\ WF_vars(enable_unpair(BootCaller))
    /\ WF_vars(enable_auth_register(BootCaller))
    /\ WF_vars(enable_auth_info_register(BootCaller))
    /\ WF_vars(enable_activate(BootCaller))
    /\ WF_vars(enable_start_advertisement(BootCaller))
    /\ WF_vars(enable_unlock(BootCaller))

\* the stack reports every freed connection object
StackFairness == WF_vars(recycled)

SpecBoot ==
    /\ Init
    /\ [][NextBoot]_vars
    /\ JobFairness
    /\ CallbackFairness
    /\ EnableFairness
    /\ StackFairness

(***************************************************************************)
(* The device in use, with the pairing-screen calls recorded: main()       *)
(* enables the services, the user switches them off in the settings        *)
(* screen, peers connect, pair and disconnect.                             *)
(***************************************************************************)
UiCaller == "ui"

InitPair ==
    /\ InitBase
    /\ adv_stat = AdvStatOff
    /\ disp = DispOn

NextPair ==
    \/ NextBoot
    \/ disable_call(UiCaller)
    \/ disable_lock(UiCaller)
    \/ disable_check(UiCaller)
    \/ disable_clear(UiCaller)
    \/ disable_cancel(UiCaller)
    \/ disable_stop(UiCaller)
    \/ disable_disconnect(UiCaller)
    \/ disable_unlock(UiCaller)
    \/ disable_return(UiCaller)
    \/ \E pk \in PasskeySamples : passkey_display(pk)
    \/ process_passkey_display_check
    \/ process_passkey_display_show
    \/ auth_cancel
    \/ process_auth_cancel
    \/ pairing_complete
    \/ process_pairing_complete
    \/ pairing_failed
    \/ process_pairing_failed
    \/ param_req
    \/ le_param_req
    \/ param_req_answered
    \/ param_updated
    \/ le_param_updated

SpecPair == InitPair /\ [][NextPair]_vars

(***************************************************************************)
(* The passkey formatter at work: the booted device, a peer that connects  *)
(* and the stack asking for any of PasskeyInputs to be shown.              *)
(***************************************************************************)
NextPasskey ==
    \/ NextBoot
    \/ \E pk \in PasskeyInputs : passkey_display(pk)
    \/ process_passkey_display_check
    \/ process_passkey_display_show

SpecPasskey == InitPair /\ [][NextPasskey]_vars

(***************************************************************************)
(* The device in use with the settings screen open: main() enables the     *)
(* services, the user switches them off, peers connect and disconnect,     *)
(* and the screen reads the state of the services at any moment.           *)
(***************************************************************************)
NextPoll ==
    \/ NextBoot
    \/ disable_call(UiCaller)
    \/ disable_lock(UiCaller)
    \/ disable_check(UiCaller)
    \/ disable_clear(UiCaller)
    \/ disable_cancel(UiCaller)
    \/ disable_stop(UiCaller)
    \/ disable_disconnect(UiCaller)
    \/ disable_unlock(UiCaller)
    \/ disable_return(UiCaller)
    \/ settings_screen_refresh_ble_state

SpecPoll == Init /\ [][NextPoll]_vars

(***************************************************************************)
(* The user toggles the services in the settings screen (settings.c lines  *)
(* 102-140) after main() has enabled them at boot; no peer connects and    *)
(* every bt_le_adv_start() succeeds.  A call that was made runs to its     *)
(* return and the work queue runs every submitted job.                     *)
(***************************************************************************)
\* line 48 with a stack that accepts the request
bt_le_adv_start_succeeds ==
    /\ start_advertising_work_adv_start
    /\ jpc' = "j_set"

\* main.c line 94: main() powers the stack on
cold_enable_call ==
    /\ ~bt_enabled
    /\ enable_call(BootCaller)

\* settings.c line 116: the box was checked while the services were off
ui_enable_call ==
    /\ ~ble_services_active
    /\ enable_call(UiCaller)

NextToggle ==
    \/ bluetooth_infrastructure_init
    \/ cold_enable_call
    \/ ui_enable_call
    \/ \E c \in Callers : enable_lock(c)
    \/ \E c \in Callers : enable_check(c)
    \/ \E c \in Callers : enable_bt_enable(c)
    \/ \E c \in Callers : enable_unpair(c)
    \/ \E c \in Callers : enable_auth_register(c)
    \/ \E c \in Callers : enable_auth_info_register(c)
    \/ \E c \in Callers : enable_activate(c)
    \/ \E c \in Callers : enable_start_advertisement(c)
    \/ \E c \in Callers : enable_unlock(c)
    \/ \E c \in Callers : enable_return(c)
    \/ disable_call(UiCaller)
    \/ disable_lock(UiCaller)
    \/ disable_check(UiCaller)
    \/ disable_clear(UiCaller)
    \/ disable_cancel(UiCaller)
    \/ disable_stop(UiCaller)
    \/ disable_disconnect(UiCaller)
    \/ disable_unlock(UiCaller)
    \/ disable_return(UiCaller)
    \/ adv_work_run
    \/ start_advertising_work_check
    \/ bt_le_adv_start_succeeds
    \/ start_advertising_work_set
    \/ start_advertising_work_return

\* a call of enable() or disable() that was made runs to its return
CallFairness ==
    /\ WF_vars(bluetooth_infrastructure_init)
    /\ \A c \in Callers :
         /\ WF_vars(enable_lock(c))
         /\ WF_vars(enable_check(c))
         /\ WF_vars(enable_bt_enable(c))
         /\ WF_vars(enable_unpair(c))
         /\ WF_vars(enable_auth_register(c))
         /\ WF_vars(enable_auth_info_register(c))
         /\ WF_vars(enable_activate(c))
         /\ WF_vars(enable_start_advertisement(c))
         /\ WF_vars(enable_unlock(c))
         /\ WF_vars(enable_return(c))
         /\ WF_vars(disable_lock(c))
         /\ WF_vars(disable_check(c))
         /\ WF_vars(disable_clear(c))
         /\ WF_vars(disable_cancel(c))
         /\ WF_vars(disable_stop(c))
         /\ WF_vars(disable_disconnect(c))
         /\ WF_vars(disable_unlock(c))
         /\ WF_vars(disable_return(c))

SpecToggle ==
    /\ Init
    /\ [][NextToggle]_vars
    /\ JobFairness
    /\ CallFairness

(***************************************************************************)
(* The same toggling user with a stack that may refuse to advertise:       *)
(* bt_le_adv_start() fails any number of times, but not for ever.          *)
(***************************************************************************)
NextBackoff ==
    \/ bluetooth_infrastructure_init
    \/ cold_enable_call
    \/ ui_enable_call
    \/ \E c \in Callers : enable_lock(c)
    \/ \E c \in Callers : enable_check(c)
    \/ \E c \in Callers : enable_bt_enable(c)
    \/ \E c \in Callers : enable_unpair(c)
    \/ \E c \in Callers : enable_auth_register(c)
    \/ \E c \in Callers : enable_auth_info_register(c)
    \/ \E c \in Callers : enable_activate(c)
    \/ \E c \in Callers : enable_start_advertisement(c)
    \/ \E c \in Callers : enable_unlock(c)
    \/ \E c \in Callers : enable_return(c)
    \/ disable_call(UiCaller)
    \/ disable_lock(UiCaller)
    \/ disable_check(UiCaller)
    \/ disable_clear(UiCaller)
    \/ disable_cancel(UiCaller)
    \/ disable_stop(UiCaller)
    \/ disable_disconnect(UiCaller)
    \/ disable_unlock(UiCaller)
    \/ disable_return(UiCaller)
    \/ adv_work_run
    \/ start_advertising_work_check
    \/ start_advertising_work_adv_start
    \/ start_advertising_work_retry
    \/ start_advertising_work_set
    \/ start_advertising_work_return

SpecBackoff ==
    /\ Init
    /\ [][NextBackoff]_vars
    /\ JobFairness
    /\ CallFairness

(***************************************************************************)
(* The first advertising start after boot, with the bt_le_adv_start()      *)
(* calls counted: init(), enable() from main(), the job and its retries;   *)
(* no peer connects and nobody calls disable().                            *)
(***************************************************************************)
InitRetry ==
    /\ InitBase
    /\ adv_stat = AdvStatOn
    /\ disp = DispOff

NextRetry ==
    \/ bluetooth_infrastructure_init
    \/ boot_enable_call
    \/ enable_lock(BootCaller)
    \/ enable_check(BootCaller)
    \/ enable_bt_enable(BootCaller)
    \/ enable_unpair(BootCaller)
    \/ enable_auth_register(BootCaller)
    \/ enable_auth_info_register(BootCaller)
    \/ enable_activate(BootCaller)
    \/ enable_start_advertisement(BootCaller)
    \/ enable_unlock(BootCaller)
    \/ enable_return(BootCaller)
    \/ adv_work_run
    \/ start_advertising_work_check
    \/ start_advertising_work_adv_start
    \/ start_advertising_work_retry
    \/ start_advertising_work_set
    \/ start_advertising_work_return

SpecRetry ==
    /\ InitRetry
    /\ [][NextRetry]_vars
    /\ JobFairness
    /\ EnableFairness

(***************************************************************************)
(* Vocabulary of the properties.                                           *)
(***************************************************************************)
\* caller c takes the step
Stepped(c) == pc'[c] # pc[c]

\* no enable()/disable() holds the mutex, no job body and no callback runs
AtRest == ble_mutex = NoOwner /\ jpc = "idle" /\ cpc = "idle"

\* what a no-op call must leave alone
SharedUnchanged ==
    /\ UNCHANGED flags
    /\ UNCHANGED adv_work
    /\ UNCHANGED stackv
    /\ UNCHANGED term_req

StackBringUp == {"bt_enable", "bt_unpair", "settings_load",
                 "bt_conn_auth_cb_register", "bt_conn_auth_info_cb_register"}

FatalRoutines == {"bt_enable", "bt_conn_auth_cb_register",
                  "bt_conn_auth_info_cb_register"}

InDisableBody(c) == pc[c] \in {"d_check", "d_clear", "d_cancel", "d_stop",
                               "d_disconnect", "d_unlock"}

(***************************************************************************)
(* C1 (invariant I1): whenever no call, job step or callback is in         *)
(* progress, advertising implies that the stack is powered and that the    *)
(* services are active, whatever the stack calls returned.  This is the    *)
(* claim taken on the states every observer agrees on; the claim itself    *)
(* asks for it in every reachable state.                                   *)
(***************************************************************************)
C1_AdvertisingImpliesActive ==
    AtRest => (advertising => (bt_enabled /\ ble_services_active))

(***************************************************************************)
(* C2: enable() is idempotent.  When enable() finds the services active    *)
(* it changes no flag, leaves the job, the registrations and the stack     *)
(* alone, calls no stack or work-queue routine and returns 0; and every    *)
(* enable() that returns 0 releases the mutex with the services active.    *)
(***************************************************************************)
C2_EnableIdempotent ==
    [][\A c \in Callers :
         /\ ( /\ Stepped(c)
              /\ \/ pc[c] = "e_check" /\ ble_services_active
                 \/ pc[c] \in {"e_unlock", "e_done"} /\ path[c] = "already" )
            => /\ SharedUnchanged
               /\ calls'[c] = {}
               /\ ret'[c] = 0
               /\ pc'[c] \in {"e_unlock", "e_done", "idle"}
         /\ (pc'[c] = "e_unlock" /\ ret'[c] = 0) => ble_services_active'
      ]_vars

C2_Witness ==
    \E c \in Callers :
        pc[c] = "e_done" /\ path[c] = "already" /\ ret[c] = 0
          /\ ble_services_active

(***************************************************************************)
(* C3: bt_enabled never goes from true to false, bt_enable() succeeds at   *)
(* most once, and once bt_enabled is true no enable() call invokes         *)
(* bt_enable, bt_unpair, settings_load or a callback registration: such a  *)
(* routine is invoked only by the call that powered the stack on.          *)
(***************************************************************************)
C3_PoweredOnce ==
    [][/\ bt_enabled => bt_enabled'
       /\ power_ok' <= 1
       /\ \A c \in Callers : \A r \in StackBringUp :
            (r \in calls'[c] /\ r \notin calls[c])
              => IF r = "bt_enable" THEN ~bt_enabled
                                    ELSE "bt_enable" \in calls[c]
      ]_vars

C3_Witness ==
    \E c \in Callers :
        /\ pc[c] = "e_done" /\ path[c] = "ok" /\ ret[c] = 0
        /\ calls[c] \cap StackBringUp = {}
        /\ bt_enabled /\ power_ok = 1

(***************************************************************************)
(* C4: disable() is idempotent.  When disable() finds the services         *)
(* inactive it returns 0, changes no flag, neither cancels nor schedules   *)
(* the job and calls no stack routine (no stop-advertising, no             *)
(* disconnect).                                                            *)
(***************************************************************************)
C4_DisableIdempotent ==
    [][\A c \in Callers :
         ( /\ Stepped(c)
           /\ \/ pc[c] = "d_check" /\ ~ble_services_active
              \/ pc[c] \in {"d_unlock", "d_done"} /\ path[c] = "already" )
         => /\ SharedUnchanged
            /\ calls'[c] = {}
            /\ ret'[c] = 0
            /\ pc'[c] \in {"d_unlock", "d_done", "idle"}
      ]_vars

C4_Witness ==
    \E c \in Callers :
        pc[c] = "d_done" /\ path[c] = "already" /\ ret[c] = 0
          /\ ~ble_services_active /\ bt_enabled

(***************************************************************************)
(* C5: disable() never powers the stack off and never forces a link down:  *)
(* every step of disable() leaves bt_enabled, the link, the termination    *)
(* request, the registrations and the power-on count unchanged, and the    *)
(* only routines it calls are the job cancellation and bt_le_adv_stop.     *)
(***************************************************************************)
C5_DisableKeepsStack ==
    [][\A c \in Callers :
         (Stepped(c) /\ InDisableBody(c))
         => /\ bt_enabled' = bt_enabled
            /\ link' = link
            /\ term_req' = term_req
            /\ UNCHANGED <<auth_cb, auth_info_cb, power_ok, recycle_due>>
            /\ calls'[c] \subseteq {"k_work_cancel_delayable", "bt_le_adv_stop"}
            /\ ble_services_active' => ble_services_active
            /\ ~adv_work.pending => ~adv_work'.pending
            /\ ~advertising => ~advertising'
      ]_vars

C5_Witness ==
    \E c \in Callers :
        /\ pc[c] = "d_done" /\ path[c] = "ok"
        /\ calls[c] = {"k_work_cancel_delayable", "bt_le_adv_stop"}
        /\ bt_enabled /\ link

(***************************************************************************)
(* C6: in every reachable state, services active implies that the stack    *)
(* is powered and that both pairing callback tables (auth and auth-info)   *)
(* are registered, whatever failed in earlier enable() calls.              *)
(***************************************************************************)
C6_ActiveImpliesRegistered ==
    ble_services_active => (bt_enabled /\ auth_cb /\ auth_info_cb)

(***************************************************************************)
(* C7: when bt_enable() fails, enable() goes straight to its return with   *)
(* the stack's error code: no flag is set (all three stay false), no job   *)
(* is scheduled, no callback table is registered, the unlock on that path  *)
(* frees the mutex, and an enable() that finds the stack unpowered calls   *)
(* bt_enable() again.                                                      *)
(***************************************************************************)
C7_PowerOnFailure ==
    [][\A c \in Callers :
         /\ (Stepped(c) /\ pc[c] = "e_bt_enable" /\ err'[c] # 0)
            => /\ pc'[c] = "e_unlock"
               /\ ret'[c] = err'[c]
               /\ UNCHANGED flags
               /\ ~advertising' /\ ~bt_enabled' /\ ~ble_services_active'
               /\ ~adv_work'.pending
               /\ ~auth_cb' /\ ~auth_info_cb'
               /\ calls'[c] \cap StackBringUp = {"bt_enable"}
         /\ (Stepped(c) /\ pc[c] = "e_unlock" /\ path[c] = "power_fail")
            => /\ ble_mutex = c /\ ble_mutex' = NoOwner
               /\ SharedUnchanged
               /\ ret'[c] = ret[c] /\ ret[c] \in ErrCodes
               /\ ~advertising /\ ~bt_enabled /\ ~ble_services_active
               /\ ~adv_work.pending
               /\ ~auth_cb /\ ~auth_info_cb
         /\ (Stepped(c) /\ pc[c] = "e_check" /\ ~bt_enabled)
            => pc'[c] = "e_bt_enable"
      ]_vars

\* one call has returned the power-on error; a later call is at bt_enable()
C7_Witness ==
    \E c, d \in Callers :
        /\ pc[d] = "e_done" /\ path[d] = "power_fail" /\ ret[d] \in ErrCodes
        /\ pc[c] = "e_bt_enable"
        /\ ~bt_enabled

(***************************************************************************)
(* C8: when the registration of either pairing callback table fails,       *)
(* enable() returns that error code, the services stay inactive, no        *)
(* advertising is requested and no pairing callback table is left          *)
(* registered.                                                             *)
(***************************************************************************)
C8_RegistrationFailure ==
    [][\A c \in Callers :
         /\ ( /\ Stepped(c)
              /\ pc[c] \in {"e_auth_register", "e_auth_info_register"}
              /\ err'[c] # 0 )
            => /\ pc'[c] = "e_unlock"
               /\ ret'[c] = err'[c]
               /\ ~ble_services_active'
               /\ adv_work' = adv_work /\ ~adv_work'.pending
               /\ ~auth_cb' /\ ~auth_info_cb'
         /\ ( /\ Stepped(c)
              /\ pc[c] = "e_unlock"
              /\ path[c] \in {"auth_fail", "info_fail"} )
            => /\ ret'[c] = ret[c] /\ ret[c] \in ErrCodes
               /\ ~ble_services_active'
               /\ ~adv_work'.pending
               /\ "k_work_schedule" \notin calls'[c]
               /\ ~auth_cb' /\ ~auth_info_cb'
      ]_vars

C8_Witness ==
    \E c \in Callers :
        /\ pc[c] = "e_unlock" /\ path[c] = "info_fail"
        /\ "bt_conn_auth_cb_register" \in calls[c]
        /\ ret[c] \in ErrCodes

(***************************************************************************)
(* C9: enable() returns non-zero exactly when bt_enable() or a callback    *)
(* registration failed in that call (a bt_unpair failure does not count),  *)
(* and disable() returns 0 on every path, also when bt_le_adv_stop()       *)
(* failed.                                                                 *)
(***************************************************************************)
C9_OnlyFatalFailuresReturned ==
    \A c \in Callers :
        /\ pc[c] \in {"e_unlock", "e_done"}
             => (ret[c] # 0 <=> fails[c] \cap FatalRoutines # {})
        /\ pc[c] \in {"d_unlock", "d_done"} => ret[c] = 0

C9_Witness ==
    \E c, d \in Callers :
        /\ pc[c] = "e_done" /\ ret[c] = 0 /\ "bt_unpair" \in fails[c]
        /\ pc[d] = "d_done" /\ ret[d] = 0 /\ "bt_le_adv_stop" \in fails[d]

(***************************************************************************)
(* C10: inside disable(), ble_services_active is already false when the    *)
(* job is cancelled and when bt_le_adv_stop() is called, and stays false   *)
(* until disable() returns, so a job step or callback that runs at or      *)
(* after the cancellation reads false.                                     *)
(***************************************************************************)
C10_ClearedBeforeCancel ==
    \A c \in Callers :
        ( \/ pc[c] \in {"d_cancel", "d_stop", "d_disconnect"}
          \/ pc[c] = "d_unlock" /\ path[c] = "ok" )
        => ~ble_services_active

\* the job was cancelled while a callback is about to test the flag
C10_Witness ==
    \E c \in Callers :
        pc[c] = "d_stop" /\ cpc = "c_start_adv" /\ ~ble_services_active

(***************************************************************************)
(* C11: once disable() has returned and until the next enable() acts (the  *)
(* services are inactive and no call, job step or callback is in           *)
(* progress), advertising is false and no advertising job is pending: no   *)
(* job step or callback re-armed advertising behind disable()'s back.      *)
(***************************************************************************)
C11_NoRearmAfterDisable ==
    (AtRest /\ ~ble_services_active)
      => (~advertising /\ ~bcast /\ ~adv_work.pending)

(***************************************************************************)
(* C12: when the test made by on_disconnect or on_recycled finds the       *)
(* services inactive, the callback ends there: it does not schedule the    *)
(* job, does not start the broadcast and does not set advertising.         *)
(***************************************************************************)
C12_NoResumeWhileInactive ==
    [][( /\ cpc \in {"c_disconnected", "c_start_adv"}
         /\ cpc' # cpc
         /\ ~ble_services_active )
       => /\ cpc' = "idle"
          /\ adv_work' = adv_work
          /\ advertising' = advertising
          /\ bcast' = bcast
      ]_vars

\* on_disconnect is at its test with the stack powered, services inactive
C12_Witness ==
    /\ cpc = "c_disconnected" /\ ~link
    /\ bt_enabled /\ ~ble_services_active
    /\ ~adv_work.pending

(***************************************************************************)
(* C13 (resume on disconnect): with the services active and no disable(),  *)
(* once a link that was set up by a clean on_connect is reported lost,     *)
(* advertising eventually is true again without a new enable().            *)
(***************************************************************************)
C13_ResumeOnDisconnect ==
    (cpc = "c_disconnected" /\ ble_services_active) ~> advertising

\* the link was lost while advertising was stopped; later it is on again
C13_Witness ==
    /\ cpc = "c_disconnected" /\ ble_services_active /\ ~advertising
    /\ ~adv_work.pending /\ jpc = "idle"

(***************************************************************************)
(* C14 (retry convergence): while the services stay active, if the first   *)
(* N bt_le_adv_start() calls fail and call N+1 succeeds, the job has made  *)
(* exactly N+1 calls when advertising is true, every retry was scheduled   *)
(* with the 5 s backoff (the first attempt with the settle delay), no job  *)
(* is pending or running once advertising is true, no attempt is in        *)
(* progress while another submission waits, and advertising does become    *)
(* true.                                                                   *)
(***************************************************************************)
C14_RetryState ==
    /\ advertising =>
         /\ adv_stat.calls = adv_stat.fails + 1
         /\ ~adv_work.pending /\ jpc \in {"idle", "j_return"}
    /\ ~advertising =>
         adv_stat.calls = adv_stat.fails + (IF jpc = "j_set" THEN 1 ELSE 0)
    /\ adv_work.pending =>
         /\ jpc \in {"idle", "j_return"}
         /\ adv_work.delay =
              IF adv_stat.fails = 0 THEN ADV_SETTLE_MS ELSE ADV_BACKOFF_MS
    /\ jpc = "j_retry" => adv_stat.fails > 0 /\ ~bcast

C14_RetryConvergence ==
    /\ []C14_RetryState
    /\ ble_services_active ~> advertising

\* advertising came on after the largest number of failed starts
C14_Witness ==
    /\ advertising /\ ble_services_active
    /\ adv_stat.fails = MaxAdvFailures
    /\ adv_stat.calls = MaxAdvFailures + 1
    /\ ~adv_work.pending

(***************************************************************************)
(* C15 as claimed (rejection while inactive): every on_connect event that  *)
(* finds the services inactive requests termination of the link with the   *)
(* "user terminated" reason, calls neither stop_advertising() nor          *)
(* start_advertisement(), and leaves the three flags unchanged.            *)
(***************************************************************************)
C15_RejectEveryConnect ==
    [][( /\ cpc = "c_connected" /\ cpc' # cpc
         /\ ~ble_services_active )
       => /\ term_req' = BT_HCI_ERR_REMOTE_USER_TERM_CONN
          /\ cpc' = "idle"
          /\ UNCHANGED flags
          /\ adv_work' = adv_work
      ]_vars

(***************************************************************************)
(* C15 as amended: an on_connect event that reports no error and finds     *)
(* the services inactive requests termination of the link with the "user   *)
(* terminated" reason, calls neither stop_advertising() nor                *)
(* start_advertisement(), and leaves the three flags unchanged.            *)
(***************************************************************************)
C15_RejectCleanConnect ==
    /\ [][( /\ cpc = "c_connected" /\ cpc' # cpc
            /\ ~ble_services_active /\ cb_err = 0 )
          => /\ term_req' = BT_HCI_ERR_REMOTE_USER_TERM_CONN
             /\ cpc' = "idle"
             /\ UNCHANGED flags
             /\ adv_work' = adv_work
             /\ bcast' = bcast /\ link' = link
         ]_vars
    /\ [][( /\ cpc = "c_connected" /\ cpc' # cpc
            /\ ~ble_services_active /\ cb_err # 0 )
          => /\ term_req' = term_req /\ term_req = NoTerm
             /\ cpc' = "idle"
             /\ UNCHANGED flags
             /\ adv_work' = adv_work
         ]_vars

\* a clean connection was rejected: the callback is over, the request made
C15_Witness ==
    /\ cpc = "idle" /\ link /\ cb_err = 0
    /\ term_req = BT_HCI_ERR_REMOTE_USER_TERM_CONN
    /\ ~ble_services_active

(***************************************************************************)
(* C16 (cold boot): the enable() that powers the stack on ends with        *)
(* bt_enabled and ble_services_active true, return value 0 and the job     *)
(* scheduled once with the 100 ms settle delay; and after it advertising   *)
(* eventually is true.                                                     *)
(***************************************************************************)
C16_ColdBoot ==
    /\ [][\A c \in Callers :
            ( /\ Stepped(c) /\ pc[c] = "e_start_advertisement"
              /\ "bt_enable" \in calls[c] )
            => /\ pc'[c] = "e_unlock" /\ ret'[c] = 0
               /\ bt_enabled' /\ ble_services_active'
               /\ adv_work' = [pending |-> TRUE, canceling |-> FALSE,
                               delay |-> ADV_SETTLE_MS]
               /\ jpc = "idle"
         ]_vars
    /\ (\E c \in Callers :
          pc[c] = "e_start_advertisement" /\ "bt_enable" \in calls[c])
       ~> advertising

\* the cold-boot enable() has returned 0 and the job has started advertising
C16_Witness ==
    \E c \in Callers :
        /\ pc[c] = "e_done" /\ path[c] = "ok" /\ ret[c] = 0
        /\ "bt_enable" \in calls[c]
        /\ advertising /\ bcast /\ bt_enabled /\ ble_services_active

(***************************************************************************)
(* C17 (quick toggle): when disable() cancels the job before it has fired  *)
(* and before anything was broadcast, then until the next enable() turns   *)
(* the services on bt_le_adv_start() is not called and advertising stays   *)
(* false; a job body that runs all the same finds the services inactive    *)
(* and returns without changing a flag, broadcasting or rescheduling.      *)
(***************************************************************************)
C17_QuickToggle ==
    /\ [](unfired_cancel =>
            /\ ~ble_services_active
            /\ ~advertising /\ ~bcast
            /\ jpc \notin {"j_adv_start", "j_set", "j_retry"})
    /\ [][( /\ unfired_cancel /\ jpc = "j_check" /\ jpc' # jpc )
          => /\ jpc' = "j_return"
             /\ UNCHANGED flags
             /\ bcast' = bcast
             /\ adv_work'.pending = adv_work.pending
         ]_vars

\* the job body runs after the disable() that cancelled it unfired
C17_Witness ==
    unfired_cancel /\ jpc = "j_check" /\ ~ble_services_active

(***************************************************************************)
(* C18 (passkey flow): a passkey callback that finds the services active   *)
(* calls the pairing screen's init, set_pin and load, in this order and    *)
(* once each; every pairing-complete and every pairing-failed callback     *)
(* calls unload exactly once and nothing else of the screen.               *)
(***************************************************************************)
C18_PasskeyFlow ==
    /\ [][( cpc = "c_passkey" /\ cpc' # cpc /\ ble_services_active )
          => cpc' = "c_passkey_show" /\ disp' = disp
         ]_vars
    /\ [][( cpc = "c_passkey_show" /\ cpc' # cpc )
          => /\ disp'.calls = disp.calls \o <<"init", "set_pin", "load">>
             /\ disp'.pin = passkey_to_string(cb_passkey)
             /\ cpc' = "idle"
         ]_vars
    /\ [][( cpc \in {"c_pairing_complete", "c_pairing_failed"} /\ cpc' # cpc )
          => /\ disp'.calls = Append(disp.calls, "unload")
             /\ cpc' = "idle"
         ]_vars

\* the passkey was shown and the failed pairing that followed hid it
C18_Witness ==
    /\ disp.calls = <<"init", "set_pin", "load", "unload">>
    /\ term_req = BT_HCI_ERR_AUTH_FAIL
    /\ cpc = "idle"

(***************************************************************************)
(* C19 (passkey string): for every passkey from 0 to 999999 the string     *)
(* handed to blepairing_screen_set_pin() has exactly six characters, each  *)
(* a decimal digit, and read as a decimal number it is the passkey.        *)
(***************************************************************************)
PASSKEY_MAX == (10 ^ PASSKEY_WIDTH) - 1

CharDigit(ch) == CHOOSE d \in 0..9 : DigitChars[d + 1] = ch

RECURSIVE StrValue(_)
StrValue(str) ==
    IF str = <<>> THEN 0
    ELSE 10 * StrValue(SubSeq(str, 1, Len(str) - 1)) + CharDigit(str[Len(str)])

IsSixDigitsOf(str, p) ==
    /\ Len(str) = 6
    /\ \A i \in 1..Len(str) : \E d \in 0..9 : str[i] = DigitChars[d + 1]
    /\ StrValue(str) = p

C19_PasskeyString ==
    [][( /\ cpc = "c_passkey_show" /\ cpc' # cpc
         /\ cb_passkey \in 0..PASSKEY_MAX )
       => IsSixDigitsOf(disp'.pin, cb_passkey)
      ]_vars

\* passkey 42 was handed over as "000042"
C19_Witness ==
    /\ disp.pin = <<"0", "0", "0", "0", "4", "2">>
    /\ disp.calls = <<"init", "set_pin", "load">>

(***************************************************************************)
(* C20 (is_active): is_bluetooth_services_active() can be called and       *)
(* returns in every state, whoever holds ble_mutex; it returns the value   *)
(* ble_services_active has at that moment, and the call changes nothing    *)
(* but what its caller does with the value (the check box).                *)
(***************************************************************************)
C20_IsActiveNeverBlocks ==
    /\ [](ENABLED settings_screen_refresh_ble_state)
    /\ [][ ui_checkbox' # ui_checkbox
           => /\ ui_checkbox' = ble_services_active
              /\ UNCHANGED <<flags, adv_work, ble_mutex, inited, callerv,
                             jobv, cbv, stackv, pairv, adv_stat,
                             unfired_cancel>>
        ]_vars

\* the box was checked by a read made while the first enable() held the
\* mutex, between line 285 and the unlock
C20_Witness ==
    /\ ble_mutex = BootCaller
    /\ pc[BootCaller] = "e_start_advertisement"
    /\ "bt_enable" \in calls[BootCaller]
    /\ ui_checkbox /\ ble_services_active

(***************************************************************************)
(* C21 (invariant I3): every step that reads or writes advertising,        *)
(* bt_enabled or ble_services_active is taken by the thread that holds     *)
(* ble_mutex, be it a caller of enable()/disable(), the work queue running *)
(* the job or the notification thread running a callback.                  *)
(***************************************************************************)
WorkQueueThread == "workq"
NotificationThread == "bt_rx"

\* lines 231, 240, 252, 285, 63 and 297, 307, 74-84
CallerAccess(c) ==
    /\ Stepped(c)
    /\ pc[c] \in {"e_check", "e_bt_enable", "e_activate",
                  "e_start_advertisement", "d_check", "d_clear", "d_stop"}

\* lines 44, 51 and 57
JobAccess == jpc \in {"j_check", "j_retry", "j_set"} /\ jpc' # jpc

\* lines 100, 112, 63, 74-84, 129, 172 and 202
CallbackAccess ==
    /\ cpc \in {"c_connected", "c_conn_failed", "c_start_adv", "c_stop",
                "c_disconnected", "c_passkey", "c_pairing_failed"}
    /\ cpc' # cpc

C21_AccessUnderMutex ==
    [][ /\ \A c \in Callers : CallerAccess(c) => ble_mutex = c
        /\ JobAccess => ble_mutex = WorkQueueThread
        /\ CallbackAccess => ble_mutex = NotificationThread
      ]_vars

(***************************************************************************)
(* C22 (repeated toggling): an enable() on a powered stack whose services  *)
(* are off goes straight to line 285 without any bring-up call, sets       *)
(* ble_services_active, requests advertising and returns 0; and after it   *)
(* advertising eventually is true, unless the services are switched off    *)
(* again first.                                                            *)
(***************************************************************************)
C22_ToggleResumes ==
    /\ [][\A c \in Callers :
            ( Stepped(c) /\ pc[c] = "e_check" /\ bt_enabled
              /\ ~ble_services_active )
            => pc'[c] = "e_activate" /\ calls'[c] \cap StackBringUp = {}
         ]_vars
    /\ [][\A c \in Callers :
            ( Stepped(c) /\ pc[c] = "e_unlock" /\ path[c] = "ok" )
            => ret'[c] = 0 /\ ble_services_active
         ]_vars
    /\ (\E c \in Callers :
          /\ pc[c] = "e_start_advertisement"
          /\ "bt_enable" \notin calls[c])
       ~> (advertising \/ ~ble_services_active)

(***************************************************************************)
(* C23 (stop): when stop_advertising() returns, from disable() or from     *)
(* the connected callback, advertising is false and no job is pending,     *)
(* whatever bt_le_adv_stop() returned; and bt_le_adv_stop() was called     *)
(* only if advertising was true at line 74.                                *)
(***************************************************************************)
StopReturns ==
    \/ \E c \in Callers : Stepped(c) /\ pc[c] = "d_stop"
    \/ cpc = "c_stop" /\ cpc' # cpc

C23_StopClears ==
    [][ StopReturns =>
          /\ ~advertising'
          /\ ~adv_work'.pending
          /\ (bcast' # bcast => advertising)
      ]_vars

(***************************************************************************)
(* C24 (one pending job): start_advertisement() schedules nothing unless   *)
(* bt_enabled and ble_services_active hold at its test, and a request      *)
(* made while the job is already scheduled leaves the scheduled job as it  *)
(* is: still one job, with the delay it had.                               *)
(***************************************************************************)
C24_RequestsCoalesce ==
    /\ [][( cpc = "c_start_adv" /\ cpc' # cpc
            /\ ~(bt_enabled /\ ble_services_active) )
          => cpc' = "idle" /\ adv_work' = adv_work
         ]_vars
    /\ [][( cpc = "c_schedule" /\ cpc' # cpc /\ adv_work.pending )
          => adv_work' = adv_work
         ]_vars
    /\ [][\A c \in Callers :
            ( Stepped(c) /\ pc[c] = "e_start_advertisement"
              /\ adv_work.pending )
            => adv_work' = adv_work
         ]_vars

\* a request is about to be made while the job waits with the backoff delay
C24_Witness ==
    /\ cpc = "c_schedule"
    /\ adv_work.pending /\ adv_work.delay = ADV_BACKOFF_MS

(***************************************************************************)
(* C25 (job only while active): whenever no call, job step or callback is  *)
(* in progress, a pending advertising job implies ble_services_active.     *)
(* The claim asks for it in every reachable state.                         *)
(***************************************************************************)
C25_PendingImpliesActive ==
    (AtRest /\ adv_work.pending) => ble_services_active

(***************************************************************************)
(* C26 (stale job): a job body that finds advertising set, the stack not   *)
(* powered or the services inactive at line 44 returns without calling     *)
(* bt_le_adv_start(), without changing a flag and without rescheduling;    *)
(* and bt_le_adv_start() is never called by the job while advertising is   *)
(* true.                                                                   *)
(***************************************************************************)
C26_StaleJobExits ==
    /\ [][( /\ jpc = "j_check" /\ jpc' # jpc
            /\ ~(ble_services_active /\ bt_enabled /\ ~advertising) )
          => /\ jpc' = "j_return"
             /\ UNCHANGED flags
             /\ adv_work' = adv_work
             /\ bcast' = bcast
             /\ adv_stat' = adv_stat
         ]_vars
    /\ [](jpc = "j_adv_start" => ~advertising)

\* the job fires while advertising is already on
C26_Witness ==
    jpc = "j_check" /\ advertising /\ bt_enabled /\ ble_services_active

(***************************************************************************)
(* C27 (retry policy): after a failed bt_le_adv_start() the job leaves     *)
(* advertising false and is scheduled again, with the 5 s backoff, exactly *)
(* when bt_enabled and ble_services_active hold at line 51; while the      *)
(* services stay active another attempt is eventually made; and no         *)
(* attempt starts while the services are inactive.                         *)
(***************************************************************************)
C27_RetryPolicy ==
    /\ [][( jpc = "j_retry" /\ jpc' # jpc )
          => /\ ~advertising /\ ~advertising'
             /\ IF bt_enabled /\ ble_services_active
                  THEN /\ adv_work'.pending
                       /\ adv_work'.delay = ADV_BACKOFF_MS
                  ELSE adv_work' = adv_work
         ]_vars
    /\ [][( jpc = "j_check" /\ jpc' = "j_adv_start" ) => ble_services_active
         ]_vars
    /\ (jpc = "j_retry" /\ ble_services_active)
       ~> (jpc = "j_adv_start" \/ ~ble_services_active)

(***************************************************************************)
(* C28 (connect while active): with the services active, a connected       *)
(* callback that reports an error requests advertising again and no        *)
(* termination; one that reports no error calls stop_advertising(), after  *)
(* which no job is pending and advertising is false.                       *)
(***************************************************************************)
C28_ConnectWhileActive ==
    /\ [][( cpc = "c_connected" /\ cpc' # cpc /\ ble_services_active )
          => /\ cpc' = IF cb_err # 0 THEN "c_conn_failed" ELSE "c_stop_cancel"
             /\ term_req' = NoTerm
         ]_vars
    /\ [][( cpc = "c_conn_failed" /\ cpc' # cpc /\ ble_services_active )
          => cpc' = "c_start_adv" /\ term_req' = NoTerm
         ]_vars
    /\ [][( cpc = "c_stop" /\ cpc' # cpc )
          => ~advertising' /\ ~adv_work'.pending
         ]_vars

(***************************************************************************)
(* C29 (no advertising while connected): while a link is up, from the end  *)
(* of its connected callback on, no scheduled job goes as far as calling   *)
(* bt_le_adv_start().                                                      *)
(***************************************************************************)
\* a link is up and its connected callback has run to its end
ConnectedHandled ==
    link /\ cpc \notin {"c_connected", "c_stop_cancel", "c_stop"}

C29_SuppressedWhileConnected ==
    [][( jpc = "j_check" /\ jpc' = "j_adv_start" ) => ~ConnectedHandled ]_vars

(***************************************************************************)
(* C30 (recycled = disconnect): the disconnected callback either does      *)
(* nothing or goes on exactly as the recycled callback does, and it does   *)
(* nothing exactly when the recycled callback, run in the same state,      *)
(* would do nothing; both schedule the job with the settle delay if and    *)
(* only if bt_enabled and ble_services_active hold, and change no flag.    *)
(***************************************************************************)
C30_RecycledLikeDisconnect ==
    /\ [][( cpc = "c_disconnected" /\ cpc' # cpc )
          => /\ IF bt_enabled /\ ble_services_active
                  THEN cpc' = "c_start_adv"
                  ELSE cpc' = "idle"
             /\ adv_work' = adv_work /\ UNCHANGED flags
         ]_vars
    /\ [][( cpc = "c_start_adv" /\ cpc' # cpc )
          => /\ IF bt_enabled /\ ble_services_active
                  THEN cpc' = "c_schedule"
                  ELSE cpc' = "idle"
             /\ adv_work' = adv_work /\ UNCHANGED flags
         ]_vars
    /\ [][( cpc = "c_schedule" /\ cpc' # cpc )
          => /\ adv_work' = k_work_schedule(adv_work, ADV_SETTLE_MS)
             /\ cpc' = "idle" /\ UNCHANGED flags
         ]_vars
    /\ [][( cpc = "idle" /\ cpc' = "c_start_adv" )
          => adv_work' = adv_work /\ UNCHANGED flags
         ]_vars

\* a disconnect is about to ask for advertising, as a recycle would
C30_Witness ==
    /\ cpc = "c_disconnected" /\ ~link
    /\ bt_enabled /\ ble_services_active /\ ~adv_work.pending /\ ~advertising

(***************************************************************************)
(* C31 (parameter request): le_param_req() answers true exactly when       *)
(* ble_services_active holds at the time of the call, whatever the         *)
(* requested parameters are, and it changes no flag, no job state, no      *)
(* stack-side state and requests no disconnect.                            *)
(***************************************************************************)
C31_ParamReqAnswer ==
    [][( cpc = "c_param_req" /\ cpc' # cpc )
          => /\ param_ret' = ble_services_active
             /\ cpc' = "c_param_ret"
             /\ SharedUnchanged
             /\ UNCHANGED <<ble_mutex, pairv>>
      ]_vars

\* a request was rejected: the link is still up but the services are off
C31_Witness ==
    /\ cpc = "c_param_ret"
    /\ param_ret = FALSE
    /\ link /\ ~ble_services_active

(***************************************************************************)
(* C32 (pairing outcome callbacks): process_pairing_failed() asks the      *)
(* stack to drop the link with reason BT_HCI_ERR_AUTH_FAIL if and only if  *)
(* ble_services_active holds, and calls blepairing_screen_unload() exactly *)
(* once either way; process_auth_cancel() and process_pairing_complete()   *)
(* each call blepairing_screen_unload() exactly once and ask for no        *)
(* disconnect.                                                             *)
(***************************************************************************)
C32_PairingOutcome ==
    /\ [][( cpc = "c_pairing_failed" /\ cpc' # cpc )
          => /\ term_req = NoTerm
             /\ term_req' = IF ble_services_active THEN BT_HCI_ERR_AUTH_FAIL
                                                   ELSE NoTerm
             /\ disp'.calls = disp.calls \o <<"unload">>
             /\ cpc' = "idle"
         ]_vars
    /\ [][( cpc \in {"c_auth_cancel", "c_pairing_complete"} /\ cpc' # cpc )
          => /\ term_req = NoTerm /\ term_req' = NoTerm
             /\ disp'.calls = disp.calls \o <<"unload">>
             /\ cpc' = "idle"
         ]_vars

\* a pairing failed before any passkey was shown, the services being active
C32_Witness ==
    /\ disp.calls = <<"unload">>
    /\ term_req = BT_HCI_ERR_AUTH_FAIL
    /\ ble_services_active /\ cpc = "idle"

(***************************************************************************)
(* C33 (passkey while inactive): a passkey-display callback that finds     *)
(* ble_services_active false returns at once: it makes no pairing-screen   *)
(* call (no init, no set_pin, no load) and changes no flag, no job state,  *)
(* no stack-side state and requests no disconnect.                         *)
(***************************************************************************)
C33_PasskeyIgnoredWhileInactive ==
    [][( cpc = "c_passkey" /\ cpc' # cpc /\ ~ble_services_active )
          => /\ cpc' = "idle"
             /\ disp' = disp
             /\ SharedUnchanged
             /\ UNCHANGED <<ble_mutex, param_ret>>
      ]_vars

\* the stack asks for a passkey to be shown after the services were switched
\* off, the link still being up
C33_Witness ==
    /\ cpc = "c_passkey" /\ cb_passkey \in PasskeySamples
    /\ ~ble_services_active /\ link

(***************************************************************************)
(* C34 (who writes the flags): no step of the advertising job and no step  *)
(* of a connection, parameter or pairing callback changes                  *)
(* ble_services_active or bt_enabled; the parameter callbacks and the      *)
(* pairing callbacks (passkey display, cancel, complete, failed) moreover  *)
(* leave advertising and the state of the delayed job unchanged.           *)
(***************************************************************************)
ParamAndPairingSteps ==
    {"c_param_req", "c_param_ret", "c_param_updated", "c_passkey",
     "c_passkey_show", "c_auth_cancel", "c_pairing_complete",
     "c_pairing_failed"}

C34_FlagsWrittenByLifecycleOnly ==
    /\ [][( jpc' # jpc \/ cpc' # cpc )
          => UNCHANGED <<ble_services_active, bt_enabled>>
         ]_vars
    /\ [][( cpc' # cpc /\ ( cpc \in ParamAndPairingSteps
                            \/ cpc' \in ParamAndPairingSteps ) )
          => UNCHANGED <<advertising, adv_work>>
         ]_vars

\* the new connection parameters are reported while the services are active
\* and a job is pending
C34_Witness ==
    /\ cpc = "c_param_updated"
    /\ ble_services_active /\ bt_enabled /\ adv_work.pending

(***************************************************************************)
(* C35 (mutual exclusion): at most one thread is between the               *)
(* k_mutex_lock() and the k_mutex_unlock() of enable()/disable(), and it   *)
(* is the owner of ble_mutex.  When two enable() calls meet on a device    *)
(* whose stack was off and no stack call fails, bt_enable() and the        *)
(* registration of the pairing callbacks are each made by exactly one of   *)
(* the two calls, and both calls return 0.                                 *)
(***************************************************************************)
BetweenLockAndUnlock(c) ==
    pc[c] \in {"e_check", "e_bt_enable", "e_unpair", "e_auth_register",
               "e_auth_info_register", "e_activate", "e_start_advertisement",
               "e_unlock", "d_check", "d_clear", "d_cancel", "d_stop",
               "d_disconnect", "d_unlock"}

MadeBy(r) == {c \in Callers : r \in calls[c]}

C35_MutexSerializes ==
    /\ \A c \in Callers : BetweenLockAndUnlock(c) => ble_mutex = c
    /\ Cardinality({c \in Callers : BetweenLockAndUnlock(c)}) <= 1
    /\ ( /\ \A c \in Callers : pc[c] = "e_done" /\ fails[c] = {}
         /\ MadeBy("bt_enable") # {} )
       => /\ \A c \in Callers : ret[c] = 0
          /\ Cardinality(MadeBy("bt_enable")) = 1
          /\ Cardinality(MadeBy("bt_conn_auth_cb_register")) = 1
          /\ Cardinality(MadeBy("bt_conn_auth_info_cb_register")) = 1
          /\ power_ok = 1 /\ auth_cb /\ auth_info_cb

\* two enable() calls met on a cold device: main brought the stack up and
\* the ui call, which waited for the mutex, found the services active
C35_Witness ==
    /\ pc["main"] = "e_done" /\ pc["ui"] = "e_done"
    /\ "bt_enable" \in calls["main"] /\ path["main"] = "ok"
    /\ path["ui"] = "already"
    /\ ret["main"] = 0 /\ ret["ui"] = 0

(***************************************************************************)
(* C36 (active implies powered): in every reachable state                  *)
(* ble_services_active implies bt_enabled, so the already-enabled test of  *)
(* enable(), bt_enabled && ble_services_active, has the value of           *)
(* ble_services_active alone.                                              *)
(***************************************************************************)
C36_ActiveImpliesPowered ==
    /\ ble_services_active => bt_enabled
    /\ enable_already <=> ble_services_active

\* an enable() call is at its already-enabled test and the services are on
C36_Witness ==
    \E c \in Callers :
        /\ pc[c] = "e_check" /\ ble_mutex = c
        /\ ble_services_active /\ bt_enabled

(***************************************************************************)
(* C37 (release on every path): every return path of enable() and          *)
(* disable() releases ble_mutex, exactly once: a call gives the mutex up   *)
(* only in its k_mutex_unlock() step, reaches its return only through that *)
(* step, and owns nothing outside its body.  Hence the mutex is free       *)
(* whenever no call is between lock and unlock, and a call that waits for  *)
(* it can then take it.                                                    *)
(***************************************************************************)
WaitsForMutex(c) == pc[c] \in {"e_lock", "d_lock"}

C37_ReleasedOnEveryPath ==
    /\ []( \A c \in Callers : ~BetweenLockAndUnlock(c) => ble_mutex # c )
    /\ []( (\A c \in Callers : ~BetweenLockAndUnlock(c))
            => /\ ble_mutex = NoOwner
               /\ \A c \in Callers :
                     WaitsForMutex(c)
                       => ENABLED (enable_lock(c) \/ disable_lock(c)) )
    /\ [][ \A c \in Callers :
             /\ ( ble_mutex = c /\ ble_mutex' # c )
                  => /\ pc[c] \in {"e_unlock", "d_unlock"}
                     /\ pc'[c] \in {"e_done", "d_done"}
                     /\ ble_mutex' = NoOwner
             /\ ( pc'[c] \in {"e_done", "d_done"} /\ pc'[c] # pc[c] )
                  => ble_mutex = c /\ ble_mutex' = NoOwner
         ]_vars

\* enable() returned on a failure path with the mutex free, and the other
\* caller, which waits for the mutex, can go on
C37_Witness ==
    \E c, d \in Callers :
        /\ pc[c] = "e_done" /\ path[c] = "info_fail" /\ ret[c] # 0
        /\ ble_mutex = NoOwner
        /\ WaitsForMutex(d)

(***************************************************************************)
(* C38 (failed connect while inactive): a connected callback that carries  *)
(* a non-zero error and finds ble_services_active false returns at once:   *)
(* it asks for no disconnect, does not ask for advertising again, does not *)
(* stop advertising, and leaves the flags, the job and the stack-side      *)
(* state as they were.                                                     *)
(***************************************************************************)
C38_FailedConnectWhileInactive ==
    [][( /\ cpc = "c_connected" /\ cpc' # cpc
         /\ cb_err # 0 /\ ~ble_services_active )
          => /\ cpc' = "idle"
             /\ term_req = NoTerm /\ term_req' = NoTerm
             /\ UNCHANGED <<flags, adv_work, stackv, ble_mutex>>
      ]_vars

\* a connection attempt failed after the services were switched off
C38_Witness ==
    /\ cpc = "c_connected" /\ cb_err # 0
    /\ ~ble_services_active /\ ~link

(***************************************************************************)
(* C39 (bounded queue): notification_count stays within                    *)
(* 0..NOTIFICATION_QUEUE_SIZE whatever sequence of add, clear-by-id and    *)
(* clear-all operations runs; an add to a full queue drops exactly the     *)
(* oldest entry, keeps the others in their order and puts the new entry    *)
(* last (an add to a queue with room just puts the new entry last); and    *)
(* notifications_get_by_index() returns NULL exactly for the indices       *)
(* outside 0..notification_count-1, and the queued entry otherwise.        *)
(***************************************************************************)
\* the queued entries, oldest first
QueuedOf(queue, count) ==
    [i \in 1..(IF count <= NOTIFICATION_QUEUE_SIZE
                 THEN count ELSE NOTIFICATION_QUEUE_SIZE) |-> queue[i - 1]]

Queued == QueuedOf(notifications, notification_count)

AddStep == next_notification_id' = next_notification_id + 1

C39_QueueBounded ==
    /\ [](notification_count \in 0..NOTIFICATION_QUEUE_SIZE)
    /\ [][ AddStep
           => LET new == [id |-> next_notification_id, active |-> TRUE]
              IN  Queued' =
                    IF notification_count = NOTIFICATION_QUEUE_SIZE
                      THEN Append(Tail(Queued), new)
                      ELSE Append(Queued, new)
         ]_vars
    /\ [][ get_ret' # get_ret
           => LET asked == get_ret'[1].index
                  got == get_ret'[1].ret
              IN  /\ got = NULL <=> asked \notin 0..(notification_count - 1)
                  /\ got # NULL
                       => \A i \in got : notifications[i] = Queued[asked + 1]
         ]_vars

\* the queue is full again after its first eviction: the entry with id 1 is
\* gone and the new entry is the last one
C39_Witness ==
    /\ notification_count = NOTIFICATION_QUEUE_SIZE
    /\ notifications[0].id = 2
    /\ notifications[NOTIFICATION_QUEUE_SIZE - 1].id
          = NOTIFICATION_QUEUE_SIZE + 1

(***************************************************************************)
(* C40 (distinct ids): the ids of the queued entries are strictly          *)
(* increasing in queue order, hence pairwise distinct, whatever sequence   *)
(* of add and clear operations runs (the id counter staying below its      *)
(* 32-bit wrap); so notifications_clear_by_id(id) removes exactly the one  *)
(* entry that carries the id and keeps the others in their order, and it   *)
(* leaves the queue as it is when no entry carries the id.                 *)
(***************************************************************************)
IdsOf(entries) == {entries[i].id : i \in 1..Len(entries)}

Without(entries, id) ==
    LET Other(e) == e.id # id IN SelectSeq(entries, Other)

C40_DistinctIds ==
    /\ \A i, j \in 1..Len(Queued) :
          i < j => Queued[i].id < Queued[j].id
    /\ \A id \in ClearIdInputs :
          LET r == clear_by_id_result(id)
              after == QueuedOf(r.queue, r.count)
          IN  /\ after = Without(Queued, id)
              /\ id \in IdsOf(Queued) => Len(after) = Len(Queued) - 1
              /\ id \notin IdsOf(Queued)
                   => r.queue = notifications /\ r.count = notification_count

\* the entry with id 3 was removed from a queue that held ids 1 to 10
C40_Witness ==
    /\ notification_count = NOTIFICATION_QUEUE_SIZE - 1
    /\ notifications[1].id = 2
    /\ notifications[2].id = 4
    /\ notifications[NOTIFICATION_QUEUE_SIZE - 2].id = NOTIFICATION_QUEUE_SIZE

====
